---------------------------- MODULE Spec2Model ----------------------------
(***************************************************************************)
(* Clip Curation & Assembly Engine of VideoClipChatbot.                    *)
(*                                                                         *)
(*   server.js           IndustryStandardVideoExtractor (parser, resolver, *)
(*                       segmenter, curator) and FrameExtractor            *)
(*   video_generator.js  VideoGenerator (assembler)                        *)
(*                                                                         *)
(* Four state machines share this module, one specification each; the     *)
(* functions checked on their own have one specification each as well:    *)
(*   SpecParse     parseTimestampsRobustly applied to bounded contents     *)
(*   SpecCurate    extractRelevantClips over a retrieved request           *)
(*   SpecAssemble  generateVideo, one step per awaited subprocess          *)
(*   SpecFrame     concurrent extractFrame calls for one cache key         *)
(*                                                                         *)
(* Units: curator times are whole seconds, scores are hundredths           *)
(* (0.4 is 40); assembler times are tenths of a second (Math.round is then *)
(* a real rounding).                                                       *)
(***************************************************************************)
EXTENDS Integers, Sequences, FiniteSets, TLC

VARIABLES
    \* ---- parser (SpecParse)
    pContent,       \* the content string handed to parseTimestampsRobustly
    pPc,            \* "input" | "parsed"
    pResult,        \* the TranscriptEntry sequence it returned
    pMethod,        \* which strategy produced pResult: 0 (none), 1, 2, 3
    \* ---- curator (SpecCurate)
    bedrockRuntimeClient,   \* TRUE when the model client was constructed
    videoFiles,             \* readdir of the videos directory, filtered
    llmMode,                \* behaviour of the LLM collaborator stub
    embedMode,              \* behaviour of the embedding collaborator stub
    references,             \* retrievedReferences of the agent trace
    cPc,                    \* "idle" | "done"
    cClips,                 \* the value extractRelevantClips returned
    \* ---- assembler (SpecAssemble)
    gSegments,          \* the segments argument of generateVideo
    lavfiSupported,     \* set by testFFmpegCapabilities at initialize()
    gPc,                \* "idle" | "loop" | "done"
    gI,                 \* the segment the loop is at (1-based)
    uniqueSegments,     \* what deduplicateSegments returned
    transitionPath,     \* <<>> for null, <<file>> otherwise
    processedSegments,  \* the objects pushed by the loop
    gPlaced,            \* for each pushed object, the index of its segment
    disk,               \* the files under outputDirectory
    segmentCache,       \* the segment ids extracted so far
    gFailed,            \* the segments whose extraction failed
    gOutcome,           \* "none" | "returned" | "threw"
    gCaptions,          \* for each captioning step, its segment and what
                        \* became of drawtext, the re-encode and the copy
    gConcat,            \* "none" | "fast" | "normalized": the branch taken
    \* ---- frame extractor (SpecFrame)
    frameCache,         \* the entry under the cache key
    extractionQueue,    \* the promise under the cache key, <<>> when absent
    promises,           \* the extraction promise of each caller
    callers,            \* one extractFrame call chain per caller
    sweep,              \* cleanCache: "idle", or "stat" while fs.stat is awaited
    ladderOnly,         \* for each caller: no attempt of its call ended
                        \* otherwise than by exhausting the ladder
    markerCached,       \* a call exhausted the ladder on every attempt
    sinceMarker,        \* for each caller: its call began after that
    \* ---- one function applied to bounded arguments (the other specifications)
    fnArgs,             \* the arguments of the call
    fnPc,               \* "called" | "returned"
    fnResult,           \* what the call returned
    \* ---- one engine operation waiting on a collaborator (SpecWait)
    waitSite,           \* the call site that is waiting
    waitPc,             \* "idle" | "waiting" | "done"
    attempt,            \* the subprocess or request being awaited, from 1
    running,            \* the attempts whose subprocess is still alive
    waitOutcome,        \* "none" | "ok" | "error" | "timeout"
    \* ---- one cached document and its frame selection (SpecDocument)
    docStructure,       \* cached.structure.sections: needsVisual of each step
    selectedFrames,     \* cached.selectedFrames: key -> frame.success
    isReadyForPDF,      \* cached.isReadyForPDF
    exportResponse      \* what the last request was answered with

parseVars == <<pContent, pPc, pResult, pMethod>>
curateVars == <<bedrockRuntimeClient, videoFiles, llmMode, embedMode,
                references, cPc, cClips>>
assembleVars == <<gSegments, lavfiSupported, gPc, gI, uniqueSegments,
                  transitionPath, processedSegments, gPlaced, disk,
                  segmentCache, gFailed, gOutcome, gCaptions, gConcat>>
frameVars == <<frameCache, extractionQueue, promises, callers, sweep,
               ladderOnly, markerCached, sinceMarker>>
callVars == <<fnArgs, fnPc, fnResult>>
waitVars == <<waitSite, waitPc, attempt, running, waitOutcome>>
docVars == <<docStructure, selectedFrames, isReadyForPDF, exportResponse>>
vars == <<parseVars, curateVars, assembleVars, frameVars, callVars, waitVars, docVars>>

----------------------------------------------------------------------------
(* Generic helpers                                                          *)

Max(a, b) == IF a >= b THEN a ELSE b
Min(a, b) == IF a <= b THEN a ELSE b

Range(s) == {s[i] : i \in 1..Len(s)}

\* Array.prototype.slice(0, n)
Slice(s, n) == SubSeq(s, 1, Min(n, Len(s)))

RECURSIVE FlatSeq(_)
\* Array.prototype.flat() on a sequence of sequences
FlatSeq(ss) == IF ss = <<>> THEN <<>> ELSE Head(ss) \o FlatSeq(Tail(ss))

RECURSIVE InsertKey(_, _, _)
\* the index sequence idx (ascending by key, ties in input order) with index i
\* inserted after every index whose key is not greater
InsertKey(i, idx, keys) ==
    IF idx = <<>> THEN <<i>>
    ELSE IF keys[i] < keys[Head(idx)] THEN <<i>> \o idx
    ELSE <<Head(idx)>> \o InsertKey(i, Tail(idx), keys)

RECURSIVE SortedIndices(_, _)
\* the indices 1..n ordered by ascending key, stable
SortedIndices(n, keys) ==
    IF n = 0 THEN <<>> ELSE InsertKey(n, SortedIndices(n - 1, keys), keys)

\* Array.prototype.sort((a, b) => key(a) - key(b)): stable since Node 11
SortAscending(s, keys) ==
    LET idx == SortedIndices(Len(s), keys)
    IN  [i \in 1..Len(s) |-> s[idx[i]]]

\* Array.prototype.sort((a, b) => key(b) - key(a))
SortDescending(s, keys) == SortAscending(s, [i \in 1..Len(s) |-> 0 - keys[i]])

----------------------------------------------------------------------------
(* CLIP_CONFIG                                                              *)

MIN_RELEVANCE_SCORE == 5
MIN_LLM_SCORE == 40
MIN_DURATION == 5
MAX_DURATION == 90
MAX_CLIPS == 4
CONTEXT_BUFFER == 3

----------------------------------------------------------------------------
(* timeToSeconds: JSON values are numbers or strings; a string is a         *)
(* sequence of characters over digits, ":", "-" and "x" (any other          *)
(* character).  Whole seconds only: no "." in the alphabet.                 *)

Digits == {"0", "1", "2", "3", "4", "5", "6", "7", "8", "9"}

DigitVal(c) ==
    CASE c = "0" -> 0 [] c = "1" -> 1 [] c = "2" -> 2 [] c = "3" -> 3
      [] c = "4" -> 4 [] c = "5" -> 5 [] c = "6" -> 6 [] c = "7" -> 7
      [] c = "8" -> 8 [] c = "9" -> 9

Num(n) == [kind |-> "num", n |-> n, s |-> <<>>]
Str(s) == [kind |-> "str", n |-> 0, s |-> s]

\* JavaScript truthiness of a JSON number or string
Truthy(v) == IF v.kind = "num" THEN v.n # 0 ELSE v.s # <<>>

RECURSIVE DigitPrefix(_)
\* the longest leading run of digits
DigitPrefix(s) ==
    IF s # <<>> /\ Head(s) \in Digits
    THEN <<Head(s)>> \o DigitPrefix(Tail(s)) ELSE <<>>

RECURSIVE DigitsValue(_)
DigitsValue(s) ==
    IF s = <<>> THEN 0
    ELSE 10 * DigitsValue(SubSeq(s, 1, Len(s) - 1)) + DigitVal(s[Len(s)])

NaN == [nan |-> TRUE, v |-> 0]
Fin(n) == [nan |-> FALSE, v |-> n]

\* parseFloat on a string without ".": an optional sign, then the leading
\* digits; NaN when there is none
ParseNumber(s) ==
    LET neg  == s # <<>> /\ Head(s) = "-"
        body == IF neg THEN Tail(s) ELSE s
        ds   == DigitPrefix(body)
    IN  IF ds = <<>> THEN NaN
        ELSE Fin(IF neg THEN 0 - DigitsValue(ds) ELSE DigitsValue(ds))

RECURSIVE HexValue(_)
HexValue(s) ==
    IF s = <<>> THEN 0
    ELSE 16 * HexValue(SubSeq(s, 1, Len(s) - 1)) + DigitVal(s[Len(s)])

\* parseInt without a radix: as parseFloat, except that after the sign a
\* leading "0x" makes the rest hexadecimal
parseInt(s) ==
    LET neg  == s # <<>> /\ Head(s) = "-"
        body == IF neg THEN Tail(s) ELSE s
        hex  == Len(body) >= 2 /\ body[1] = "0" /\ body[2] = "x"
        ds   == DigitPrefix(IF hex THEN Tail(Tail(body)) ELSE body)
        n    == IF hex THEN HexValue(ds) ELSE DigitsValue(ds)
    IN  IF ds = <<>> THEN NaN ELSE Fin(IF neg THEN 0 - n ELSE n)

RECURSIVE SplitColon(_)
\* String.prototype.split(':')
SplitColon(s) ==
    IF \A i \in 1..Len(s) : s[i] # ":" THEN <<s>>
    ELSE LET k == CHOOSE i \in 1..Len(s) :
                      s[i] = ":" /\ \A j \in 1..(i - 1) : s[j] # ":"
         IN  <<SubSeq(s, 1, k - 1)>> \o SplitColon(SubSeq(s, k + 1, Len(s)))

\* parseFloat(part || 0)
PartNumber(part) == IF part = <<>> THEN Fin(0) ELSE ParseNumber(part)

\* parseInt(part || '0')
PartInteger(part) == IF part = <<>> THEN Fin(0) ELSE parseInt(part)

timeToSeconds(timeStr) ==
    IF timeStr.kind = "num" THEN Max(0, timeStr.n)
    ELSE IF timeStr.s = <<>> THEN 0
    ELSE LET str == timeStr.s IN
         IF \A i \in 1..Len(str) : str[i] \in Digits
         THEN Max(0, DigitsValue(str))
         ELSE LET parts == SplitColon(str)
                  int(i)   == PartInteger(parts[i])
                  float(i) == PartNumber(parts[i])
                  seconds ==
                      IF Len(parts) = 1 THEN float(1)
                      ELSE IF Len(parts) = 2
                      THEN IF int(1).nan \/ float(2).nan THEN NaN
                           ELSE Fin(int(1).v * 60 + float(2).v)
                      ELSE IF Len(parts) = 3
                      THEN IF int(1).nan \/ int(2).nan \/ float(3).nan THEN NaN
                           ELSE Fin(int(1).v * 3600 + int(2).v * 60 + float(3).v)
                      ELSE Fin(0)
              IN  IF seconds.nan THEN 0 ELSE Max(0, seconds.v)

----------------------------------------------------------------------------
(* Timestamp parser.  The content string is a sequence of lines, each one   *)
(* {text, start, end} triple in one of three encodings:                     *)
(*   "json"       a complete JSON object on its own line (trailing comma    *)
(*                allowed); values are JSON numbers or strings              *)
(*   "partial"    the three quoted members in order on one line without     *)
(*                the enclosing braces: JSON.parse of the line fails        *)
(*   "multiline"  the three quoted members in order, one per line, without  *)
(*                braces: only the global regex (whitespace between         *)
(*                members) sees the triple                                  *)
(* text is "" (empty), " " (blank) or a word.                               *)

Line(form, text, start, end) ==
    [form |-> form, text |-> text, start |-> start, end |-> end]

TranscriptEntry(text, start, end, confidence) ==
    [text |-> text, start |-> start, end |-> end, confidence |-> confidence]

\* String.prototype.trim on the texts of the model
Trim(text) == IF text = " " THEN "" ELSE text

\* obj.text && obj.start && obj.end
HasAllFields(obj) == obj.text # "" /\ Truthy(obj.start) /\ Truthy(obj.end)

SortByStart(timestamps) ==
    SortAscending(timestamps, [i \in 1..Len(timestamps) |-> timestamps[i].start])

\* the validation of Methods 1 and 3: the entry is pushed only when
\* startTime >= 0 && endTime > startTime && text.trim().length > 0
ValidatedEntry(text, startTime, endTime, confidence) ==
    IF startTime >= 0 /\ endTime > startTime /\ text # ""
    THEN <<TranscriptEntry(text, startTime, endTime, confidence)>>
    ELSE <<>>

\* extractTimestampsFromObject on one parsed object: the entries it pushes
extractTimestampsFromObject(obj) ==
    IF HasAllFields(obj)
    THEN ValidatedEntry(Trim(obj.text), timeToSeconds(obj.start),
                        timeToSeconds(obj.end), 100)
    ELSE <<>>

\* Method 1: the regex finds the complete objects, JSON.parse succeeds on them
parseDirectJSON(content) ==
    SortByStart(FlatSeq([i \in 1..Len(content) |->
        IF content[i].form = "json"
        THEN extractTimestampsFromObject(content[i]) ELSE <<>>]))

\* extractFromPartialLine: the three field regexes on one line, unvalidated
extractFromPartialLine(line) ==
    IF line.form = "partial"
    THEN <<TranscriptEntry(Trim(line.text), timeToSeconds(line.start),
                           timeToSeconds(line.end), 70)>>
    ELSE <<>>

\* Method 2: line by line; a line that parses is pushed as it is
parseJSONStream(content) ==
    SortByStart(FlatSeq([i \in 1..Len(content) |->
        IF content[i].form = "json"
        THEN IF HasAllFields(content[i])
             THEN <<TranscriptEntry(Trim(content[i].text),
                                    timeToSeconds(content[i].start),
                                    timeToSeconds(content[i].end), 100)>>
             ELSE <<>>
        ELSE extractFromPartialLine(content[i])]))

\* the global regex needs three non-empty quoted strings in order
MatchesGlobalRegex(line) ==
    /\ line.text # ""
    /\ line.start.kind = "str" /\ line.start.s # <<>>
    /\ line.end.kind = "str" /\ line.end.s # <<>>

\* Method 3: global regex with validation
parseWithValidation(content) ==
    SortByStart(FlatSeq([i \in 1..Len(content) |->
        IF MatchesGlobalRegex(content[i])
        THEN ValidatedEntry(Trim(content[i].text), timeToSeconds(content[i].start),
                            timeToSeconds(content[i].end), 80)
        ELSE <<>>]))

\* which of the three results is returned: the first that is not empty
FirstNonEmptyIndex(direct, stream, validated) ==
    IF direct # <<>> THEN 1
    ELSE IF stream # <<>> THEN 2
    ELSE IF validated # <<>> THEN 3
    ELSE 0

FirstNonEmpty(direct, stream, validated) ==
    IF direct # <<>> THEN direct
    ELSE IF stream # <<>> THEN stream
    ELSE validated

parseMethod(content) ==
    FirstNonEmptyIndex(parseDirectJSON(content), parseJSONStream(content),
                       parseWithValidation(content))

parseTimestampsRobustly(content) ==
    FirstNonEmpty(parseDirectJSON(content), parseJSONStream(content),
                  parseWithValidation(content))

(* Bounded inputs of the parser *)

MaxLines == 2

RawTimes ==
    { Num(0), Num(7), Str(<<"5">>), Str(<<"0", ":", "1", "0">>), Str(<<"x">>) }

StringTimes == {v \in RawTimes : v.kind = "str"}

ParseLines ==
    {Line("json", t, s, e) : t \in {"a", " "}, s \in RawTimes, e \in RawTimes}
    \cup {Line(f, "a", s, e) :
            f \in {"partial", "multiline"}, s \in StringTimes, e \in StringTimes}

SeqsUpTo(S, n) == UNION {[1..k -> S] : k \in 0..n}

ParseContents == SeqsUpTo(ParseLines, MaxLines)

ParseInit ==
    /\ pContent \in ParseContents
    /\ pPc = "input"
    /\ pResult = <<>>
    /\ pMethod = 0

\* the caller awaits parseTimestampsRobustly(content)
ParseTimestamps ==
    /\ pPc = "input"
    /\ pPc' = "parsed"
    /\ pResult' = parseTimestampsRobustly(pContent)
    /\ pMethod' = parseMethod(pContent)
    /\ UNCHANGED <<pContent, curateVars, assembleVars, frameVars, callVars, waitVars, docVars>>

----------------------------------------------------------------------------
(* Video file resolver.  A file name is a stem and an extension; the last   *)
(* path part of a storage URI is a stem and a suffix.                       *)

VideoFile(stem) == [stem |-> stem, ext |-> ".mp4"]

S3Uri(stem, suffix) == [stem |-> stem, suffix |-> suffix]

\* uriParts[uriParts.length - 1].replace('_sentences.json', ''): the stem and
\* what is left of the suffix
s3Filename(s3Uri) ==
    [stem |-> s3Uri.stem,
     rest |-> IF s3Uri.suffix = "_sentences.json" THEN "" ELSE s3Uri.suffix]

\* file.replace(/\.(mp4|avi|mov|mkv|webm)$/i, '')
videoName(file) == [stem |-> file.stem, rest |-> ""]

\* findVideoFile: <<file>> for the first file whose name equals the URI's,
\* <<>> for null
findVideoFile(s3Uri, files) ==
    LET hits == {i \in 1..Len(files) : videoName(files[i]) = s3Filename(s3Uri)}
    IN  IF hits = {} THEN <<>>
        ELSE <<files[CHOOSE i \in hits : \A j \in hits : i <= j]>>

----------------------------------------------------------------------------
(* Segmenter                                                                *)

Segment(timestamps, similarity, startTime, endTime) ==
    [timestamps |-> timestamps, similarity |-> similarity,
     startTime |-> startTime, endTime |-> endTime]

\* createFallbackSegments: groups of 8 in input order, similarity 0.5
createFallbackSegments(timestamps) ==
    [k \in 1..((Len(timestamps) + 7) \div 8) |->
        LET window == SubSeq(timestamps, 8 * (k - 1) + 1,
                             Min(8 * k, Len(timestamps)))
        IN  Segment(window, 50, window[1].start, window[Len(window)].end)]

MinStart(window) ==
    CHOOSE m \in {window[i].start : i \in 1..Len(window)} :
        \A i \in 1..Len(window) : m <= window[i].start

MaxEnd(window) ==
    CHOOSE m \in {window[i].end : i \in 1..Len(window)} :
        \A i \in 1..Len(window) : m >= window[i].end

\* the window pushed when the current one is closed: more than one entry and
\* max end after min start
ClosedWindow(currentWindow) ==
    IF Len(currentWindow) > 1 /\ MaxEnd(currentWindow) > MinStart(currentWindow)
    THEN <<currentWindow>> ELSE <<>>

RECURSIVE SlideFrom(_, _, _, _, _)
\* the loop of createSlidingWindows from entry i on; windowStart is <<>> for
\* null and <<t>> for a number, and !windowStart holds for null and for 0
SlideFrom(sorted, i, currentWindow, windowStart, windowDuration) ==
    IF i > Len(sorted) THEN ClosedWindow(currentWindow)
    ELSE LET timestamp == sorted[i] IN
         IF timestamp.end <= timestamp.start
         THEN SlideFrom(sorted, i + 1, currentWindow, windowStart, windowDuration)
         ELSE IF windowStart = <<>> \/ windowStart[1] = 0
         THEN SlideFrom(sorted, i + 1, <<timestamp>>, <<timestamp.start>>,
                        windowDuration)
         ELSE IF timestamp.start - windowStart[1] <= windowDuration
         THEN SlideFrom(sorted, i + 1, Append(currentWindow, timestamp),
                        windowStart, windowDuration)
         ELSE ClosedWindow(currentWindow)
              \o SlideFrom(sorted, i + 1, <<timestamp>>, <<timestamp.start>>,
                           windowDuration)

createSlidingWindows(timestamps, windowDuration) ==
    SlideFrom(SortByStart(timestamps), 1, <<>>, <<>>, windowDuration)

(* Embeddings are integer vectors; null is a value of its own. *)

NullVec == [null |-> TRUE, v |-> <<>>]
Vec(v) == [null |-> FALSE, v |-> v]

\* Math.sqrt on the perfect squares the vectors of the model produce
ISqrt(n) == CHOOSE r \in 0..n : r * r <= n /\ n < (r + 1) * (r + 1)

RECURSIVE Dot(_, _)
Dot(a, b) == IF a = <<>> THEN 0 ELSE Head(a) * Head(b) + Dot(Tail(a), Tail(b))

\* cosineSimilarity in hundredths; NaN for a zero denominator
cosineSimilarity(a, b) ==
    IF a.null \/ b.null \/ Len(a.v) # Len(b.v) THEN Fin(0)
    ELSE LET denominator == ISqrt(Dot(a.v, a.v)) * ISqrt(Dot(b.v, b.v))
         IN  IF denominator = 0 THEN NaN
             ELSE Fin((100 * Dot(a.v, b.v)) \div denominator)

\* getAWSEmbedding under the embedding stub: "fail" (every call fails),
\* "similar" (windows close to the query), "unrelated" (orthogonal to it)
\* "failWindows" (the query is embedded, every call for a window fails)
getAWSEmbedding(isQuery, mode) ==
    IF mode = "fail" THEN NullVec
    ELSE IF isQuery THEN Vec(<<3, 4>>)
    ELSE IF mode = "failWindows" THEN NullVec
    ELSE IF mode = "similar" THEN Vec(<<4, 3>>)
    ELSE Vec(<<-4, 3>>)

\* the scored window of createSemanticSegments, <<>> for null
scoreWindow(window, queryEmbedding, mode) ==
    LET embedding == getAWSEmbedding(FALSE, mode)
        similarity == cosineSimilarity(queryEmbedding, embedding)
    IN  IF ~embedding.null /\ ~similarity.nan
           /\ similarity.v > MIN_RELEVANCE_SCORE
        THEN <<Segment(window, similarity.v, window[1].start,
                       window[Len(window)].end)>>
        ELSE <<>>

\* scoredWindows.sort((a, b) => b.similarity - a.similarity).slice(0, 6)
TopBySimilarity(scoredWindows) ==
    Slice(SortDescending(scoredWindows,
              [i \in 1..Len(scoredWindows) |-> scoredWindows[i].similarity]), 6)

\* the windows scored in parallel, the null results filtered out
scoreWindows(windows, queryEmbedding, mode) ==
    FlatSeq([i \in 1..Len(windows) |->
                scoreWindow(windows[i], queryEmbedding, mode)])

createSemanticSegments(timestamps, client, mode) ==
    IF ~client \/ getAWSEmbedding(TRUE, mode).null
    THEN createFallbackSegments(timestamps)
    ELSE TopBySimilarity(scoreWindows(createSlidingWindows(timestamps, 45),
                                      getAWSEmbedding(TRUE, mode), mode))

----------------------------------------------------------------------------
(* Curator                                                                  *)

Clip(videoFile, startTime, endTime, relevanceScore, aiGenerated, isFallback) ==
    [videoPath |-> videoFile, sourceId |-> videoFile,
     startTime |-> startTime, endTime |-> endTime,
     relevanceScore |-> relevanceScore,
     aiGenerated |-> aiGenerated, isFallback |-> isFallback]

\* the parsed JSON object callClaudeViaAWS returns; selected_clips is <<>>
\* when the member is missing and <<list>> when it is there
Analysis(include, relevance, startOffset, endOffset, selected) ==
    [include_clip |-> include, relevance_score |-> relevance,
     optimal_start_offset |-> startOffset, optimal_end_offset |-> endOffset,
     selected_clips |-> selected]

\* callClaudeViaAWS under the LLM stub.  "fail": the send throws and the
\* catch block answers with its own default object.  "approve" / "reject":
\* the per-window judgment includes / excludes the window; asked to rank,
\* the stub answers with the selection the environment chose.
callClaudeViaAWS(mode, ranking, selection) ==
    IF mode = "fail" THEN Analysis(TRUE, 60, 0, 0, <<>>)
    ELSE IF ranking THEN Analysis(FALSE, 0, 0, 0, selection)
    ELSE IF mode = "approve" THEN Analysis(TRUE, 80, 0, 0, <<>>)
    ELSE Analysis(FALSE, 80, 0, 0, <<>>)

createBasicClip(segment, videoFile) ==
    Clip(videoFile, Max(0, segment.startTime - 2), segment.endTime + 2,
         IF segment.similarity # 0 THEN segment.similarity ELSE 50,
         FALSE, FALSE)

createValidClip(segment, videoFile, analysis) ==
    Clip(videoFile, Max(0, segment.startTime - CONTEXT_BUFFER),
         segment.endTime + CONTEXT_BUFFER,
         IF analysis.relevance_score # 0 THEN analysis.relevance_score ELSE 70,
         TRUE, FALSE)

\* an offset the judgment proposes, as enhanceClipWithLLM applies it
appliedOffset(proposed, duration) == Min(Max(0, proposed), Max(0, duration - 5))

\* the clip of an accepted window
optimizedClip(segment, videoFile, analysis, optimizedStart, optimizedEnd) ==
    IF optimizedEnd <= optimizedStart
    THEN createValidClip(segment, videoFile, analysis)
    ELSE Clip(videoFile, Max(0, optimizedStart - CONTEXT_BUFFER),
              optimizedEnd + CONTEXT_BUFFER,
              analysis.relevance_score, TRUE, FALSE)

\* judgeWindow with the include_clip test left out
judgeWindowIgnoringInclude(segment, videoFile, analysis) ==
    IF analysis.relevance_score >= MIN_LLM_SCORE
    THEN <<optimizedClip(segment, videoFile, analysis,
              segment.startTime
                + appliedOffset(analysis.optimal_start_offset,
                                segment.endTime - segment.startTime),
              segment.endTime
                - appliedOffset(analysis.optimal_end_offset,
                                segment.endTime - segment.startTime))>>
    ELSE <<>>

\* what enhanceClipWithLLM does with the judgment callClaudeViaAWS returned
\* for a window of positive duration: <<clip>>, or <<>> for null
judgeWindow(segment, videoFile, analysis) ==
    IF analysis.include_clip /\ analysis.relevance_score >= MIN_LLM_SCORE
    THEN <<optimizedClip(segment, videoFile, analysis,
              segment.startTime
                + appliedOffset(analysis.optimal_start_offset,
                                segment.endTime - segment.startTime),
              segment.endTime
                - appliedOffset(analysis.optimal_end_offset,
                                segment.endTime - segment.startTime))>>
    ELSE <<>>

\* enhanceClipWithLLM: <<clip>>, or <<>> for null
enhanceClipWithLLM(segment, videoFile, client, mode) ==
    IF ~client THEN <<createBasicClip(segment, videoFile)>>
    ELSE IF segment.endTime - segment.startTime <= 0 THEN <<>>
    ELSE judgeWindow(segment, videoFile, callClaudeViaAWS(mode, FALSE, <<>>))

\* Promise.all(segments.map(enhanceClipWithLLM)).filter(Boolean)
enhanceSegments(segments, videoFile, client, mode) ==
    FlatSeq([i \in 1..Len(segments) |->
                enhanceClipWithLLM(segments[i], videoFile, client, mode)])

\* the rest of one reference's task once its content is parsed and its video
\* looked up: nothing when either came back empty
clipsOfParsed(timestamps, videoFile, client, mode, eMode) ==
    IF timestamps = <<>> \/ videoFile = <<>> THEN <<>>
    ELSE enhanceSegments(createSemanticSegments(timestamps, client, eMode),
                         videoFile[1], client, mode)

\* the clips one reference yields in createSemanticClips
clipsOfReference(ref, files, client, mode, eMode) ==
    IF ref.content = <<>> \/ ref.uri = <<>> THEN <<>>
    ELSE clipsOfParsed(parseTimestampsRobustly(ref.content),
                       findVideoFile(ref.uri[1], files), client, mode, eMode)

createSemanticClips(refs, files, client, mode, eMode) ==
    FlatSeq([i \in 1..Len(refs) |->
                clipsOfReference(refs[i], files, client, mode, eMode)])

SortByRelevance(clips) ==
    SortDescending(clips, [i \in 1..Len(clips) |-> clips[i].relevanceScore])

\* selected_clips.slice(0, MAX_CLIPS).map(index => clips[index]).filter(Boolean)
PickSelected(clips, selected) ==
    LET picked == Slice(selected, MAX_CLIPS)
    IN  FlatSeq([i \in 1..Len(picked) |->
            IF picked[i] \in 0..(Len(clips) - 1)
            THEN <<clips[picked[i] + 1]>> ELSE <<>>])

\* the ranking once the candidates are cut to the batch ceiling
rankCandidates(candidates, result) ==
    IF result.selected_clips # <<>>
    THEN PickSelected(candidates, result.selected_clips[1])
    ELSE Slice(SortByRelevance(candidates), MAX_CLIPS)

optimizeClipsWithLLM(clips, client, mode, selection) ==
    IF ~client \/ clips = <<>> THEN Slice(clips, MAX_CLIPS)
    ELSE rankCandidates(IF Len(clips) > 8
                        THEN Slice(SortByRelevance(clips), 8) ELSE clips,
                        callClaudeViaAWS(mode, TRUE, selection))

\* a wrong loop start: the first available video is skipped
createIntelligentFallbacksSkipFirst(files) ==
    [k \in 1..(Min(Len(files), 2) - 1) |->
        Clip(files[k + 1], k * 45, k * 45 + 60, 40 - k * 10, FALSE, TRUE)]

createIntelligentFallbacks(files) ==
    [k \in 1..Min(Len(files), 2) |->
        Clip(files[k], (k - 1) * 45, (k - 1) * 45 + 60, 40 - (k - 1) * 10,
             FALSE, TRUE)]

\* Phase 3: LLM optimization, entered only with clips and a model client
optimizePhase(clips, client, mode, selection) ==
    IF clips # <<>> /\ client
    THEN optimizeClipsWithLLM(clips, client, mode, selection)
    ELSE clips

\* Phase 4: fallback if needed
fallbackPhase(clips, files) ==
    IF clips = <<>> THEN createIntelligentFallbacks(files) ELSE clips

\* extractRelevantClips with a non-null agent trace (both routes build one)
extractRelevantClips(refs, files, client, mode, eMode, selection) ==
    fallbackPhase(
        optimizePhase(createSemanticClips(refs, files, client, mode, eMode),
                      client, mode, selection),
        files)

(* Bounded requests of the curator *)

MaxRefs == 5
MaxVideos == 2

VideoStems == <<"module_1", "safety", "onboarding", "intro">>

\* what the retrieval collaborator can return for one reference
RefCatalog ==
    { \* two valid entries, 5-10 s and 7-12 s, of the first video
      [content |-> <<Line("json", "a", Str(<<"5">>), Str(<<"0", ":", "1", "0">>)),
                     Line("json", "b", Num(7), Str(<<"1", "2">>))>>,
       uri |-> <<S3Uri("module_1", "_sentences.json")>>],
      \* one entry whose end precedes its start, of the first video
      [content |-> <<Line("partial", "a", Str(<<"1", "0">>), Str(<<"5">>))>>,
       uri |-> <<S3Uri("module_1", "_sentences.json")>>],
      \* one entry of a single second, of the second video
      [content |-> <<Line("json", "a", Str(<<"0">>), Str(<<"1">>))>>,
       uri |-> <<S3Uri("safety", "_sentences.json")>>] }

\* answers of the LLM stub to the ranking prompt: selected_clips missing, or
\* a list of 0-based indices
RankSelections ==
    { <<>>, << <<>> >>, << <<1, 0>> >>, << <<0, 1, 2, 3, 4>> >>, << <<9>> >> }

CurateInit ==
    /\ bedrockRuntimeClient \in BOOLEAN
    /\ videoFiles \in {[i \in 1..n |-> VideoFile(VideoStems[i])] : n \in 0..MaxVideos}
    /\ llmMode \in {"fail", "approve", "reject"}
    /\ embedMode \in {"fail", "similar", "unrelated"}
    /\ references = <<>>
    /\ cPc = "idle"
    /\ cClips = <<>>

\* the retrieval collaborator adds one reference to the trace
Retrieve(ref) ==
    /\ cPc = "idle"
    /\ Len(references) < MaxRefs
    /\ references' = Append(references, ref)
    /\ UNCHANGED <<bedrockRuntimeClient, videoFiles, llmMode, embedMode, cPc, cClips>>
    /\ UNCHANGED <<parseVars, assembleVars, frameVars, callVars, waitVars, docVars>>

\* the route awaits clipExtractor.extractRelevantClips(agentTrace, ...)
ExtractRelevantClips(selection) ==
    /\ cPc = "idle"
    /\ cPc' = "done"
    /\ cClips' = extractRelevantClips(references, videoFiles, bedrockRuntimeClient,
                                      llmMode, embedMode, selection)
    /\ UNCHANGED <<bedrockRuntimeClient, videoFiles, llmMode, embedMode, references>>
    /\ UNCHANGED <<parseVars, assembleVars, frameVars, callVars, waitVars, docVars>>


----------------------------------------------------------------------------
(* Assembler (video_generator.js).  Times are tenths of a second.  A text   *)
(* is its first 50 characters and its length.  A file is a directory        *)
(* ("output" for outputDirectory, "temp" for outputDirectory/temp), a kind  *)
(* and what tells two files of a kind apart.                                *)

Text(head, length) == [head |-> head, length |-> length]

ContentSegment(videoPath, startTime, endTime, text, stepNumber, relevanceScore) ==
    [type |-> "content", videoPath |-> videoPath, startTime |-> startTime,
     endTime |-> endTime, text |-> text, stepNumber |-> stepNumber,
     relevanceScore |-> relevanceScore]

SpecialSegment(type) ==
    [type |-> type, videoPath |-> "", startTime |-> 0, endTime |-> 0,
     text |-> Text("", 0), stepNumber |-> 0, relevanceScore |-> 0]

File(dir, kind, video, a, b) ==
    [dir |-> dir, kind |-> kind, video |-> video, a |-> a, b |-> b]

\* Math.round of a non-negative time in tenths, to whole seconds
Round(t) == (t + 5) \div 10

\* Math.ceil(a / b) for positive b
Ceil(a, b) == (a + b - 1) \div b

Abs(n) == IF n < 0 THEN 0 - n ELSE n

getSegmentKey(segment) ==
    <<segment.videoPath, Round(segment.startTime), Round(segment.endTime),
      segment.text.head>>

\* getScore of isBetterSegment, times 3000; the segments of the model carry
\* no qualityScore and no title, description or keyTopics
getScore(seg) ==
    seg.relevanceScore * 60
    + (3000 - Min(3000, Abs((seg.endTime - seg.startTime) - 300) * 10))

isBetterSegment(newSeg, existingSeg) == getScore(newSeg) > getScore(existingSeg)

\* one turn of the loop of deduplicateSegments; seen.get(key) is the content
\* segment of uniqueSegments that has the key
dedupeStep(unique, segment) ==
    IF segment.type = "content" /\ segment.videoPath = "" THEN unique
    ELSE IF segment.type # "content" THEN Append(unique, segment)
    ELSE LET existing == {k \in 1..Len(unique) :
                             /\ unique[k].type = "content"
                             /\ getSegmentKey(unique[k]) = getSegmentKey(segment)}
         IN  IF existing = {} THEN Append(unique, segment)
             ELSE IF isBetterSegment(segment, unique[CHOOSE k \in existing : TRUE])
             THEN [unique EXCEPT ![CHOOSE k \in existing : TRUE] = segment]
             ELSE unique

RECURSIVE deduplicateSegments(_)
deduplicateSegments(segments) ==
    IF segments = <<>> THEN <<>>
    ELSE dedupeStep(deduplicateSegments(SubSeq(segments, 1, Len(segments) - 1)),
                    segments[Len(segments)])

\* getVideoDurationSec for the videos of the model
VideoDuration(videoPath) == IF videoPath = "a.mp4" THEN 1200 ELSE 900

\* optimalDuration + leadIn + leadOut of the content branch, in seconds
totalDuration(segment) ==
    Min(45, Max(15, Ceil(Ceil(segment.text.length, 10) * 12, 10)
                    + (IF segment.text.length > 200 THEN 5 ELSE 0))) + 3 + 3

\* start and end handed to extractVideoSegment
clipStart(segment) ==
    Max(0, segment.startTime - totalDuration(segment) * 5 - 50)

clipEnd(segment) ==
    Min(VideoDuration(segment.videoPath),
        clipStart(segment) + totalDuration(segment) * 10 + 100)

\* segmentId of extractVideoSegment and the file it writes
segmentId(segment) == <<segment.videoPath, clipStart(segment), clipEnd(segment)>>

segmentFile(segment) ==
    File("output", "segment", segment.videoPath, clipStart(segment),
         clipEnd(segment))

\* a JavaScript value that is a path string, or an object holding one
PathValue(file) == [isPath |-> TRUE, file |-> file]
ObjectValue(object) == [isPath |-> FALSE, file |-> object.path]

Processed(path, type, text, stepNumber, duration, importance) ==
    [path |-> path, type |-> type, text |-> text, stepNumber |-> stepNumber,
     duration |-> duration, importance |-> importance]

needsTransition(prev, current) ==
    \/ prev.type # current.type
    \/ /\ current.type = "content" /\ prev.type = "content"
       /\ \/ current.stepNumber # prev.stepNumber
          \/ current.importance > prev.importance

\* allParts: each processed path, a transition before it where one is needed
buildParts(processed, transition) ==
    FlatSeq([i \in 1..Len(processed) |->
        (IF i > 1 /\ transition # <<>>
            /\ needsTransition(processed[i - 1], processed[i])
         THEN <<transition[1]>> ELSE <<>>) \o <<processed[i].path>>])

\* allParts.length === processedSegments.length &&
\* allParts.every((part, i) => part === processedSegments[i])
isSimpleCase(allParts, processed) ==
    /\ Len(allParts) = Len(processed)
    /\ \A i \in 1..Len(allParts) :
           PathValue(allParts[i]) = ObjectValue(processed[i])

\* cleanup: unlink the listed entries that existsSync finds (a path string,
\* never an object), then remove the temp directory with all it holds
cleanup(onDisk, files) ==
    {f \in onDisk :
        /\ f.dir # "temp"
        /\ ~\E k \in 1..Len(files) : files[k].isPath /\ files[k].file = f}

normalizedParts(allParts) ==
    [k \in 1..Len(allParts) |-> File("temp", "normalized", "", k, 0)]

filesToCleanup(processed, allParts) ==
    [k \in 1..Len(processed) |-> ObjectValue(processed[k])]
    \o [k \in 1..Len(allParts) |-> PathValue(normalizedParts(allParts)[k])]

(* Bounded requests of the assembler *)

MaxSegments == 3

ShortText == Text("open the valve", 40)
LongText == Text("close the valve", 260)

SegmentCatalog ==
    { SpecialSegment("title"), SpecialSegment("transition"),
      \* two segments of one video whose times round to the same seconds
      ContentSegment("a.mp4", 302, 598, ShortText, 1, 80),
      ContentSegment("a.mp4", 304, 601, ShortText, 1, 90),
      ContentSegment("b.mp4", 700, 900, LongText, 2, 70),
      \* a content segment without videoPath
      ContentSegment("", 0, 50, ShortText, 3, 50) }

AssembleInit ==
    /\ gSegments \in SeqsUpTo(SegmentCatalog, MaxSegments)
    /\ lavfiSupported \in BOOLEAN
    /\ gPc = "idle"
    /\ gI = 1
    /\ uniqueSegments = <<>>
    /\ transitionPath = <<>>
    /\ processedSegments = <<>>
    /\ gPlaced = <<>>
    /\ disk = {}
    /\ segmentCache = {}
    /\ gFailed = {}
    /\ gOutcome = "none"
    /\ gCaptions = <<>>
    /\ gConcat = "none"

TransitionFile == File("output", "transition", "", 1, 0)

\* the catch block of generateVideo: cleanup(tempDir) and rethrow
Throw(onDisk) ==
    /\ disk' = cleanup(onDisk, <<>>)
    /\ gOutcome' = "threw"
    /\ gPc' = "done"

\* generateVideo up to the loop: the argument check, deduplicateSegments,
\* mkdir of the temp directory, createTransition(1) when lavfi is supported
BeginGenerate(transitionOk) ==
    /\ gPc = "idle"
    /\ IF gSegments = <<>>
       THEN /\ gOutcome' = "threw"
            /\ gPc' = "done"
            /\ UNCHANGED <<uniqueSegments, transitionPath, disk>>
       ELSE /\ uniqueSegments' = deduplicateSegments(gSegments)
            /\ IF ~lavfiSupported
               THEN /\ gPc' = "loop"
                    /\ UNCHANGED <<transitionPath, disk, gOutcome>>
               ELSE IF TransitionFile \in disk \/ transitionOk
               THEN /\ transitionPath' = <<TransitionFile>>
                    /\ disk' = disk \cup {TransitionFile}
                    /\ gPc' = "loop"
                    /\ UNCHANGED gOutcome
               ELSE /\ Throw(disk)
                    /\ UNCHANGED transitionPath
    /\ UNCHANGED <<gSegments, lavfiSupported, gI, processedSegments, gPlaced,
                   segmentCache, gFailed, gCaptions, gConcat>>
    /\ UNCHANGED <<parseVars, curateVars, frameVars, callVars, waitVars, docVars>>

InLoop == gPc = "loop" /\ gI <= Len(gSegments)

\* the duration of a title card: 8 s, 5 s for a section title, else 6 s
titleDuration(type) ==
    IF type = "title" THEN 80 ELSE IF type = "section_title" THEN 50 ELSE 60

\* a title, section_title or conclusion segment: createTitleCard writes
\* title-<uuid>.mp4 into outputDirectory; without lavfi the fallback returns
\* createTransition's null; a failure is logged and the segment skipped
CreateTitleCard(ok) ==
    /\ InLoop
    /\ gSegments[gI].type \in {"title", "section_title", "conclusion"}
    /\ IF lavfiSupported /\ ok
       THEN /\ disk' = disk \cup {File("output", "title", "", gI, 0)}
            /\ processedSegments' =
                   Append(processedSegments,
                          Processed(File("output", "title", "", gI, 0),
                                    gSegments[gI].type, gSegments[gI].text,
                                    0, titleDuration(gSegments[gI].type), 0))
            /\ gPlaced' = Append(gPlaced, gI)
       ELSE UNCHANGED <<disk, processedSegments, gPlaced>>
    /\ gI' = gI + 1
    /\ UNCHANGED <<gSegments, lavfiSupported, gPc, uniqueSegments,
                   transitionPath, segmentCache, gFailed, gOutcome,
                   gCaptions, gConcat>>
    /\ UNCHANGED <<parseVars, curateVars, frameVars, callVars, waitVars, docVars>>

\* a transition segment: the shared transition, if there is one
PlaceTransition ==
    /\ InLoop
    /\ gSegments[gI].type = "transition"
    /\ IF transitionPath # <<>>
       THEN /\ processedSegments' =
                   Append(processedSegments,
                          Processed(transitionPath[1], "transition",
                                    Text("", 0), 0, 15, 0))
            /\ gPlaced' = Append(gPlaced, gI)
       ELSE UNCHANGED <<processedSegments, gPlaced>>
    /\ gI' = gI + 1
    /\ UNCHANGED <<gSegments, lavfiSupported, gPc, uniqueSegments,
                   transitionPath, disk, segmentCache, gFailed, gOutcome,
                   gCaptions, gConcat>>
    /\ UNCHANGED <<parseVars, curateVars, frameVars, callVars, waitVars, docVars>>

\* a content segment without videoPath is logged and skipped
SkipMissingVideoPath ==
    /\ InLoop
    /\ gSegments[gI].type = "content" /\ gSegments[gI].videoPath = ""
    /\ gI' = gI + 1
    /\ UNCHANGED <<gSegments, lavfiSupported, gPc, uniqueSegments,
                   transitionPath, processedSegments, gPlaced, disk,
                   segmentCache, gFailed, gOutcome, gCaptions, gConcat>>
    /\ UNCHANGED <<parseVars, curateVars, frameVars, callVars, waitVars, docVars>>

\* what the captioning step leaves in captioned-<id>-<i>.mp4: addCaptions
\* with drawtext ("captioned"), its fallback simpleTranscode ("transcoded"),
\* the copy of the extracted segment made by generateVideo when addCaptions
\* throws ("copied"), or nothing when the copy throws too ("failed")
captionStepSkippingCopy(drawtextOk, transcodeOk, copyOk) ==
    IF drawtextOk THEN "captioned"
    ELSE IF transcodeOk THEN "transcoded"
    ELSE "failed"

captionStep(drawtextOk, transcodeOk, copyOk) ==
    IF drawtextOk THEN "captioned"
    ELSE IF transcodeOk THEN "transcoded"
    ELSE IF copyOk THEN "copied"
    ELSE "failed"

\* a content segment: extractVideoSegment (the cache, or ffmpeg which may
\* fail or time out: the error reaches the catch block of generateVideo),
\* then the captioning step into the temp directory
ProcessContent(extractOk, drawtextOk, transcodeOk, copyOk) ==
    /\ InLoop
    /\ gSegments[gI].type = "content" /\ gSegments[gI].videoPath # ""
    /\ IF segmentId(gSegments[gI]) \notin segmentCache /\ ~extractOk
       THEN /\ gFailed' = gFailed \cup {gI}
            /\ Throw(disk)
            /\ UNCHANGED <<gI, processedSegments, gPlaced, segmentCache,
                           gCaptions>>
       ELSE /\ segmentCache' = segmentCache \cup {segmentId(gSegments[gI])}
            /\ gCaptions' = Append(gCaptions,
                                   [segment |-> gI, drawtext |-> drawtextOk,
                                    transcode |-> transcodeOk, copy |-> copyOk])
            /\ UNCHANGED gFailed
            /\ IF captionStep(drawtextOk, transcodeOk, copyOk) = "failed"
               THEN /\ Throw(disk \cup {segmentFile(gSegments[gI])})
                    /\ UNCHANGED <<gI, processedSegments, gPlaced>>
               ELSE /\ disk' = disk \cup {segmentFile(gSegments[gI]),
                                          File("temp", "captioned", "", gI, 0)}
                    /\ processedSegments' =
                           Append(processedSegments,
                                  Processed(File("temp", "captioned", "", gI, 0),
                                            "content", gSegments[gI].text,
                                            gSegments[gI].stepNumber,
                                            clipEnd(gSegments[gI])
                                                - clipStart(gSegments[gI]),
                                            12))
                    /\ gPlaced' = Append(gPlaced, gI)
                    /\ gI' = gI + 1
                    /\ UNCHANGED <<gPc, gOutcome>>
    /\ UNCHANGED <<gSegments, lavfiSupported, uniqueSegments, transitionPath,
                   gConcat>>
    /\ UNCHANGED <<parseVars, curateVars, frameVars, callVars, waitVars, docVars>>

\* after the loop: allParts, then the simple case (taken only when nothing
\* was processed, and then the concat of an empty list fails) or the
\* normalisation of every part and the concat, cleanup, and the return
Assemble(normalizeOk, concatOk) ==
    /\ gPc = "loop" /\ gI > Len(gSegments)
    /\ gConcat' = IF isSimpleCase(buildParts(processedSegments, transitionPath),
                                  processedSegments)
                  THEN "fast" ELSE "normalized"
    /\ IF \/ isSimpleCase(buildParts(processedSegments, transitionPath),
                          processedSegments)
          \/ ~normalizeOk \/ ~concatOk
       THEN Throw(disk)
       ELSE /\ disk' = cleanup(
                   disk \cup {File("output", "final", "", 0, 0),
                              File("temp", "filelist", "", 0, 0)}
                        \cup Range(normalizedParts(
                                 buildParts(processedSegments, transitionPath))),
                   filesToCleanup(processedSegments,
                                  buildParts(processedSegments, transitionPath)))
            /\ gOutcome' = "returned"
            /\ gPc' = "done"
    /\ UNCHANGED <<gSegments, lavfiSupported, gI, uniqueSegments,
                   transitionPath, processedSegments, gPlaced, segmentCache,
                   gFailed, gCaptions>>
    /\ UNCHANGED <<parseVars, curateVars, frameVars, callVars, waitVars, docVars>>

----------------------------------------------------------------------------
(* Frame extractor (server.js, class FrameExtractor): the calls of          *)
(* extractFrame for one cache key.  A call chain has at most one promise of *)
(* its own pending at a time, so a promise is named by the caller that      *)
(* created it.  The continuations of a settled promise are microtasks: they *)
(* run in the turn that settles it, before any timer or I/O callback.       *)

maxRetries == 3
MaxCallers == 2

Callers == 1..MaxCallers

Call(pc, retryCount, awaits) ==
    [pc |-> pc, retryCount |-> retryCount, awaits |-> awaits]

\* strategy is the rung of the ladder that runs: 0 when the promise is not
\* pending
Promise(state, strategy) == [state |-> state, strategy |-> strategy]

FrameInit ==
    /\ frameCache = "none"
    /\ extractionQueue = <<>>
    /\ promises = [p \in Callers |-> Promise("none", 0)]
    /\ callers = [c \in Callers |-> Call("idle", 0, <<>>)]
    /\ sweep = "idle"
    /\ ladderOnly = [c \in Callers |-> TRUE]
    /\ markerCached = FALSE
    /\ sinceMarker = [c \in Callers |-> FALSE]

\* extractFrame from its entry to its first await: the cache check, the
\* queue check (the stored promise is returned as it is), else fs.access
Enter(c, retryCount) ==
    /\ callers' = [callers EXCEPT ![c] =
           IF frameCache = "error" THEN Call("returnedNone", retryCount, <<>>)
           ELSE IF frameCache = "path" THEN Call("returnedPath", retryCount, <<>>)
           ELSE IF extractionQueue # <<>>
           THEN Call("joined", retryCount, extractionQueue)
           ELSE Call("access", retryCount, <<>>)]
    /\ UNCHANGED <<frameCache, extractionQueue, promises>>

\* a caller invokes extractFrame(videoPath, timestamp)
CallExtractFrame(c) ==
    /\ callers[c].pc = "idle"
    /\ Enter(c, 0)
    /\ sinceMarker' = [sinceMarker EXCEPT ![c] = markerCached]
    /\ ladderOnly' = [ladderOnly EXCEPT ![c] = TRUE]
    /\ UNCHANGED <<sweep, markerCached>>
    /\ UNCHANGED <<parseVars, curateVars, assembleVars, callVars, waitVars, docVars>>

\* the catch block of extractFrame, reached by the call that created the
\* promise: back off and retry below maxRetries, else return null
Caught(call) ==
    IF call.retryCount < maxRetries
    THEN Call("backoff", call.retryCount, <<>>)
    ELSE Call("returnedNone", call.retryCount, <<>>)

\* fs.access settles: a missing video is cached as an error
AccessDone(c, videoExists) ==
    /\ callers[c].pc = "access"
    /\ IF videoExists
       THEN /\ callers' = [callers EXCEPT ![c].pc = "probe"]
            /\ UNCHANGED frameCache
       ELSE /\ callers' = [callers EXCEPT ![c].pc = "returnedNone"]
            /\ frameCache' = "error"
    /\ UNCHANGED <<extractionQueue, promises>>
    /\ UNCHANGED <<sweep, ladderOnly, markerCached, sinceMarker>>
    /\ UNCHANGED <<parseVars, curateVars, assembleVars, callVars, waitVars, docVars>>

\* getVideoDuration settles: a failed or non-positive duration is cached
ProbeDone(c, durationOk) ==
    /\ callers[c].pc = "probe"
    /\ IF durationOk
       THEN /\ callers' = [callers EXCEPT ![c].pc = "mkdir"]
            /\ UNCHANGED frameCache
       ELSE /\ callers' = [callers EXCEPT ![c].pc = "returnedNone"]
            /\ frameCache' = "error"
    /\ UNCHANGED <<extractionQueue, promises>>
    /\ UNCHANGED <<sweep, ladderOnly, markerCached, sinceMarker>>
    /\ UNCHANGED <<parseVars, curateVars, assembleVars, callVars, waitVars, docVars>>

\* fs.mkdir settles; then, in one turn, the promise is created (its executor
\* starts the first strategy) and stored in the queue
StartLadder(c, mkdirOk) ==
    /\ callers[c].pc = "mkdir"
    /\ IF mkdirOk
       THEN /\ promises' = [promises EXCEPT ![c] = Promise("running", 1)]
            /\ extractionQueue' = <<c>>
            /\ callers' = [callers EXCEPT ![c].pc = "awaiting",
                                          ![c].awaits = <<c>>]
            /\ UNCHANGED frameCache
       ELSE /\ callers' = [callers EXCEPT ![c] = Caught(@)]
            /\ frameCache' = IF callers[c].retryCount < maxRetries
                             THEN frameCache ELSE "error"
            /\ UNCHANGED <<extractionQueue, promises>>
    /\ ladderOnly' = [ladderOnly EXCEPT ![c] = @ /\ mkdirOk]
    /\ UNCHANGED <<sweep, markerCached, sinceMarker>>
    /\ UNCHANGED <<parseVars, curateVars, assembleVars, callVars, waitVars, docVars>>

\* what a call that waits for a promise does when it settles.  The creator
\* awaits it inside its try block; a call that took it from the queue
\* returned it as it is, so its rejection is the rejection of that call
Settled(call, resolved) ==
    IF resolved THEN Call("returnedPath", call.retryCount, <<>>)
    ELSE IF call.pc = "joined" THEN Call("raised", call.retryCount, <<>>)
    ELSE Caught(call)

\* the running strategy of a promise ends: with a frame of more than 1000
\* bytes ("frame"), with a small or missing file ("small"), or with an ffmpeg
\* error or the 15 s timeout ("error").  A frame resolves the promise; after
\* the third strategy the promise is rejected
StrategyEnds(p, outcome) ==
    /\ promises[p].state = "running"
    /\ IF outcome = "frame"
       THEN /\ frameCache' = "path"
            /\ extractionQueue' = <<>>
            /\ promises' = [promises EXCEPT ![p] = Promise("none", 0)]
            /\ callers' = [c \in Callers |->
                   IF callers[c].awaits = <<p>>
                   THEN Settled(callers[c], TRUE) ELSE callers[c]]
       ELSE IF promises[p].strategy < 3
       THEN /\ promises' = [promises EXCEPT ![p].strategy = @ + 1]
            /\ UNCHANGED <<frameCache, extractionQueue, callers>>
       ELSE /\ extractionQueue' = <<>>
            /\ promises' = [promises EXCEPT ![p] = Promise("none", 0)]
            /\ callers' = [c \in Callers |->
                   IF callers[c].awaits = <<p>>
                   THEN Settled(callers[c], FALSE) ELSE callers[c]]
            /\ frameCache' = IF callers[p].retryCount < maxRetries
                             THEN frameCache ELSE "error"
    /\ markerCached' = (\/ markerCached
                        \/ /\ outcome # "frame" /\ promises[p].strategy = 3
                           /\ callers[p].retryCount = maxRetries
                           /\ ladderOnly[p])
    /\ UNCHANGED <<sweep, ladderOnly, sinceMarker>>
    /\ UNCHANGED <<parseVars, curateVars, assembleVars, callVars, waitVars, docVars>>

\* the backoff delay is over: extractFrame(videoPath, timestamp, retryCount + 1)
Retry(c) ==
    /\ callers[c].pc = "backoff"
    /\ Enter(c, callers[c].retryCount + 1)
    /\ UNCHANGED <<sweep, ladderOnly, markerCached, sinceMarker>>
    /\ UNCHANGED <<parseVars, curateVars, assembleVars, callVars, waitVars, docVars>>

\* a caller whose call has ended invokes extractFrame for the key again
CallAgain(c) ==
    /\ callers[c].pc \in {"returnedPath", "returnedNone", "raised"}
    /\ Enter(c, 0)
    /\ sinceMarker' = [sinceMarker EXCEPT ![c] = markerCached]
    /\ ladderOnly' = [ladderOnly EXCEPT ![c] = TRUE]
    /\ UNCHANGED <<sweep, markerCached>>
    /\ UNCHANGED <<parseVars, curateVars, assembleVars, callVars, waitVars, docVars>>

\* cleanCache reaches the entry of the key: an entry with a path is looked
\* at (fs.stat is awaited), an error marker is passed over
SweepStat ==
    /\ sweep = "idle"
    /\ frameCache = "path"
    /\ sweep' = "stat"
    /\ UNCHANGED <<frameCache, extractionQueue, promises, callers,
                   ladderOnly, markerCached, sinceMarker>>
    /\ UNCHANGED <<parseVars, curateVars, assembleVars, callVars, waitVars, docVars>>

\* fs.stat settles: a frame older than 24 h is unlinked and the key deleted,
\* a failing stat or unlink deletes the key too; a fresh frame stays.  The
\* delete removes whatever entry the key has by then
SweepDone(remove) ==
    /\ sweep = "stat"
    /\ sweep' = "idle"
    /\ frameCache' = IF remove THEN "none" ELSE frameCache
    /\ UNCHANGED <<extractionQueue, promises, callers, ladderOnly,
                   markerCached, sinceMarker>>
    /\ UNCHANGED <<parseVars, curateVars, assembleVars, callVars, waitVars, docVars>>

----------------------------------------------------------------------------
(* Specifications: each runs one component and leaves the others idle       *)

ParseIdle ==
    /\ pContent = <<>>
    /\ pPc = "off"
    /\ pResult = <<>>
    /\ pMethod = 0

CurateIdle ==
    /\ bedrockRuntimeClient = FALSE
    /\ videoFiles = <<>>
    /\ llmMode = "fail"
    /\ embedMode = "fail"
    /\ references = <<>>
    /\ cPc = "off"
    /\ cClips = <<>>

AssembleIdle ==
    /\ gSegments = <<>>
    /\ lavfiSupported = FALSE
    /\ gPc = "off"
    /\ gI = 1
    /\ uniqueSegments = <<>>
    /\ transitionPath = <<>>
    /\ processedSegments = <<>>
    /\ gPlaced = <<>>
    /\ disk = {}
    /\ segmentCache = {}
    /\ gFailed = {}
    /\ gOutcome = "none"
    /\ gCaptions = <<>>
    /\ gConcat = "none"

FrameIdle ==
    /\ frameCache = "none"
    /\ extractionQueue = <<>>
    /\ promises = [p \in Callers |-> Promise("none", 0)]
    /\ callers = [c \in Callers |-> Call("off", 0, <<>>)]
    /\ sweep = "idle"
    /\ ladderOnly = [c \in Callers |-> TRUE]
    /\ markerCached = FALSE
    /\ sinceMarker = [c \in Callers |-> FALSE]

CallIdle ==
    /\ fnArgs = <<>>
    /\ fnPc = "off"
    /\ fnResult = <<>>

\* every component but the function call at rest
WaitIdle ==
    /\ waitSite = "none"
    /\ waitPc = "off"
    /\ attempt = 0
    /\ running = {}
    /\ waitOutcome = "none"

DocIdle ==
    /\ docStructure = <<>>
    /\ selectedFrames = <<>>
    /\ isReadyForPDF = FALSE
    /\ exportResponse = "off"

ComponentsIdle ==
    ParseIdle /\ CurateIdle /\ AssembleIdle /\ FrameIdle /\ WaitIdle /\ DocIdle

componentVars ==
    <<parseVars, curateVars, assembleVars, frameVars, waitVars, docVars>>

\* the arguments are drawn from a bounded set
Called(args) ==
    /\ fnArgs \in args
    /\ fnPc = "called"
    /\ fnResult = <<>>

\* the call returns
Returns(result) ==
    /\ fnPc = "called"
    /\ fnPc' = "returned"
    /\ fnResult' = result
    /\ UNCHANGED <<fnArgs, componentVars>>

InitParse == ParseInit /\ CurateIdle /\ AssembleIdle /\ FrameIdle /\ CallIdle /\ WaitIdle
    /\ DocIdle

NextParse == ParseTimestamps

SpecParse == InitParse /\ [][NextParse]_vars

InitCurate == ParseIdle /\ CurateInit /\ AssembleIdle /\ FrameIdle /\ CallIdle /\ WaitIdle
    /\ DocIdle

NextCurate ==
    \/ \E ref \in RefCatalog : Retrieve(ref)
    \/ \E selection \in RankSelections : ExtractRelevantClips(selection)

SpecCurate == InitCurate /\ [][NextCurate]_vars

InitAssemble == ParseIdle /\ CurateIdle /\ AssembleInit /\ FrameIdle /\ CallIdle /\ WaitIdle
    /\ DocIdle

NextAssemble ==
    \/ \E transitionOk \in BOOLEAN : BeginGenerate(transitionOk)
    \/ \E ok \in BOOLEAN : CreateTitleCard(ok)
    \/ PlaceTransition
    \/ SkipMissingVideoPath
    \/ \E extractOk \in BOOLEAN, drawtextOk \in BOOLEAN,
          transcodeOk \in BOOLEAN, copyOk \in BOOLEAN :
          ProcessContent(extractOk, drawtextOk, transcodeOk, copyOk)
    \/ \E normalizeOk \in BOOLEAN, concatOk \in BOOLEAN :
          Assemble(normalizeOk, concatOk)

SpecAssemble == InitAssemble /\ [][NextAssemble]_vars

\* generateVideo over shorter requests, for the captioning step
MaxCaptioned == 2

InitCaption ==
    /\ InitAssemble
    /\ Len(gSegments) <= MaxCaptioned

SpecCaption == InitCaption /\ [][NextAssemble]_vars

InitFrame == ParseIdle /\ CurateIdle /\ AssembleIdle /\ FrameInit /\ CallIdle /\ WaitIdle
    /\ DocIdle

NextFrame ==
    \/ \E c \in Callers : CallExtractFrame(c)
    \/ \E c \in Callers, videoExists \in BOOLEAN : AccessDone(c, videoExists)
    \/ \E c \in Callers, durationOk \in BOOLEAN : ProbeDone(c, durationOk)
    \/ \E c \in Callers, mkdirOk \in BOOLEAN : StartLadder(c, mkdirOk)
    \/ \E p \in Callers, outcome \in {"frame", "small", "error"} :
          StrategyEnds(p, outcome)
    \/ \E c \in Callers : Retry(c)
    \/ \E c \in Callers : CallAgain(c)
    \/ SweepStat
    \/ \E remove \in BOOLEAN : SweepDone(remove)

SpecFrame == InitFrame /\ [][NextFrame]_vars

----------------------------------------------------------------------------
(* Frame extractor: the timestamps handed to the transcoder.  Times are     *)
(* hundredths of a second; the probed durations are whole tenths, so that   *)
(* the 10 %, 30 % and 50 % marks are exact.                                 *)

\* adjustedTimestamp: a request at or past the end moves to 5 s before the
\* end, and nothing is extracted before 1 s
adjustedTimestamp(timestamp, duration) ==
    Max(100, IF timestamp >= duration THEN Max(0, duration - 500) ELSE timestamp)

\* .filter(t => t > 0 && t < duration)
insideVideo(timestamps, duration) ==
    SelectSeq(timestamps, LAMBDA t : t > 0 /\ t < duration)

\* the timestamps of the three strategies: primary, range, safe
extractionStrategies(adjusted, duration) ==
    << <<adjusted>>,
       insideVideo(<<Max(100, adjusted - 100), adjusted,
                     Min(duration - 100, adjusted + 100)>>, duration),
       insideVideo(<<Max(100, duration \div 10), Max(100, (3 * duration) \div 10),
                     Max(100, duration \div 2)>>, duration) >>

\* seekInput(strategy.timestamps[0]) for each strategy: <<>> for undefined
seekInputs(timestamp, duration) ==
    [k \in 1..3 |->
        Slice(extractionStrategies(adjustedTimestamp(timestamp, duration),
                                   duration)[k], 1)]

MaxProbedTenths == 80
MaxRequestedSeconds == 10

\* a probed duration above 0 and a requested timestamp
SeekArgs ==
    [duration : {10 * d : d \in 1..MaxProbedTenths},
     timestamp : {100 * s : s \in 0..MaxRequestedSeconds}]

InitSeek == ComponentsIdle /\ Called(SeekArgs)

\* extractFrame builds its strategies from the probed duration
BuildStrategies == Returns(seekInputs(fnArgs.timestamp, fnArgs.duration))

NextSeek == BuildStrategies

SpecSeek == InitSeek /\ [][NextSeek]_vars

----------------------------------------------------------------------------
(* One window and the judgment the LLM returned for it                      *)

MaxWindowStart == 4
MaxWindowLength == 10
MaxOffset == 8

\* relevance_score in hundredths, on both sides of MIN_LLM_SCORE
Relevances == {0, MIN_LLM_SCORE - 1, MIN_LLM_SCORE, MIN_LLM_SCORE + 1, 100}

\* windows of positive duration: enhanceClipWithLLM returns null for the
\* others before it asks the LLM
JudgedWindows ==
    {Segment(<<>>, 50, s, s + d) : s \in 0..MaxWindowStart,
                                   d \in 1..MaxWindowLength}

\* the LLM is asked for offsets >= 0 but is free to answer otherwise
Judgments ==
    {Analysis(include, relevance, startOffset, endOffset, <<>>) :
        include \in BOOLEAN, relevance \in Relevances,
        startOffset \in -1..MaxOffset, endOffset \in -1..MaxOffset}

JudgeArgs == [segment : JudgedWindows, analysis : Judgments]

InitJudge == ComponentsIdle /\ Called(JudgeArgs)

EnhanceClip == Returns(judgeWindow(fnArgs.segment, "a.mp4", fnArgs.analysis))

NextJudge == EnhanceClip

SpecJudge == InitJudge /\ [][NextJudge]_vars

----------------------------------------------------------------------------
(* Cross-video ranking of a list of candidates                              *)

MaxCandidates == 3

CandidateClips == {Clip("a.mp4", 0, 10, score, TRUE, FALSE) : score \in {40, 60, 80}}

RankArgs ==
    [clips : SeqsUpTo(CandidateClips, MaxCandidates),
     mode : {"fail", "approve", "reject"},
     selection : RankSelections]

InitRank == ComponentsIdle /\ Called(RankArgs)

\* optimizeClipsWithLLM with a model client
OptimizeClips ==
    Returns(optimizeClipsWithLLM(fnArgs.clips, TRUE, fnArgs.mode, fnArgs.selection))

NextRank == OptimizeClips

SpecRank == InitRank /\ [][NextRank]_vars

----------------------------------------------------------------------------
(* Cutting one parsed transcript into the segments that are scored          *)

MaxEntries == 3

\* entries as parseTimestampsRobustly returns them; the last two start more
\* than one window length after the first two
ParsedEntries ==
    {TranscriptEntry("a", t[1], t[2], 100) :
        t \in {<<0, 5>>, <<5, 10>>, <<50, 55>>, <<50, 70>>, <<60, 65>>}}

SegmentArgs ==
    [timestamps : SeqsUpTo(ParsedEntries, MaxEntries) \ {<<>>},
     client : BOOLEAN,
     embedMode : {"fail", "failWindows", "similar", "unrelated"}]

InitSegment == ComponentsIdle /\ Called(SegmentArgs)

\* createSemanticClips: the segments it maps enhanceClipWithLLM over
CreateSegments ==
    Returns(createSemanticSegments(fnArgs.timestamps, fnArgs.client,
                                   fnArgs.embedMode))

NextSegment == CreateSegments

SpecSegment == InitSegment /\ [][NextSegment]_vars

----------------------------------------------------------------------------
(* Resolving a storage URI against the videos directory                     *)

MaxListed == 2

\* basenames without extension, spelled out character by character
ResolveStems == {<<"m">>, <<"m", "1">>, <<"M">>, <<"s">>}

\* what follows the stem in the basename of the storage URI
UriSuffixes == {"_sentences.json", "_transcript.txt", "_timestamped.json", ".json"}

ResolveArgs ==
    [s3Uri : {S3Uri(stem, suffix) : stem \in ResolveStems, suffix \in UriSuffixes},
     files : SeqsUpTo({VideoFile(stem) : stem \in ResolveStems}, MaxListed)]

InitResolve == ComponentsIdle /\ Called(ResolveArgs)

FindVideoFile == Returns(findVideoFile(fnArgs.s3Uri, fnArgs.files))

NextResolve == FindVideoFile

SpecResolve == InitResolve /\ [][NextResolve]_vars

----------------------------------------------------------------------------
(* Cosine similarity of two embeddings                                      *)

MaxDims == 2

\* an embedding as the embedding call can return it: null, or a list of
\* numbers, the empty list and the all-zero list included
Embeddings ==
    {NullVec} \cup {Vec(v) : v \in SeqsUpTo({-4, -3, 0, 3, 4}, MaxDims)}

CosineArgs == [a : Embeddings, b : Embeddings]

InitCosine == ComponentsIdle /\ Called(CosineArgs)

CosineSimilarity == Returns(cosineSimilarity(fnArgs.a, fnArgs.b))

NextCosine == CosineSimilarity

SpecCosine == InitCosine /\ [][NextCosine]_vars

----------------------------------------------------------------------------
(* Parsing one time string                                                  *)

MaxTimeLen == 5

TimeChars == {"0", "1", "5", ":", "-", "x"}

TimeArgs == [timeStr : {Str(s) : s \in SeqsUpTo(TimeChars, MaxTimeLen)}]

InitTime == ComponentsIdle /\ Called(TimeArgs)

TimeToSeconds == Returns(timeToSeconds(fnArgs.timeStr))

NextTime == TimeToSeconds

SpecTime == InitTime /\ [][NextTime]_vars

----------------------------------------------------------------------------
(* The window generateVideo cuts for one content segment                    *)

MaxStartSteps == 30

\* content segments of the two videos with startTime every 5 seconds up to
\* 150 s, past the end of both videos, in tenths of a second
WindowArgs ==
    [segment :
        {ContentSegment(videoPath, 50 * k, 50 * k + length, text, 1, 80) :
            videoPath \in {"a.mp4", "b.mp4"}, k \in 0..MaxStartSteps,
            length \in {50, 300}, text \in {ShortText, LongText}}]

InitWindow == ComponentsIdle /\ Called(WindowArgs)

\* extractVideoSegment(videoPath, start, end) as generateVideo calls it
ExtractWindow ==
    Returns([start |-> clipStart(fnArgs.segment), end |-> clipEnd(fnArgs.segment)])

NextWindow == ExtractWindow

SpecWindow == InitWindow /\ [][NextWindow]_vars

----------------------------------------------------------------------------
(* One engine operation waiting on a collaborator.  The call sites:         *)
(*   "llm"        callClaudeViaAWS: bedrockRuntimeClient.send               *)
(*   "embedding"  getAWSEmbedding: send raced against a timer               *)
(*   "frame"      extractFrame: one ffmpeg per strategy, three strategies   *)
(*                per ladder, one ladder per attempt of the call            *)
(*   "segment"    extractVideoSegment: ffmpeg                               *)
(*   "caption"    addCaptions: ffmpeg with drawtext                         *)
(*   "transcode"  simpleTranscode: ffmpeg                                   *)
(*   "normalize"  generateVideo: ffmpeg for one part                        *)
(*   "concat"     generateVideo: ffmpeg with the concat demuxer             *)

Sites ==
    {"llm", "embedding", "frame", "segment", "caption", "transcode",
     "normalize", "concat"}

\* the sites that spawn a transcoder subprocess
Subprocess(site) == site \notin {"llm", "embedding"}

\* the timer armed next to the wait, in milliseconds: <<>> when there is none
timeoutMs(site) ==
    IF site = "embedding" THEN <<10000>>
    ELSE IF site = "frame" THEN <<15000>>
    ELSE IF site = "segment" THEN <<45000>>
    ELSE <<>>

\* the timer's callback kills the subprocess: command.kill('SIGKILL')
killsOnTimeout(site) == site = "segment"

\* the subprocesses one operation starts one after the other on its output
\* path: 3 strategies in each of the maxRetries + 1 ladders of extractFrame
attempts(site) == IF site = "frame" THEN 3 * (maxRetries + 1) ELSE 1

WaitInit ==
    /\ waitSite = "none"
    /\ waitPc = "idle"
    /\ attempt = 0
    /\ running = {}
    /\ waitOutcome = "none"

\* the operation reaches the call site and awaits the collaborator
StartWait(site) ==
    /\ waitPc = "idle"
    /\ waitSite' = site
    /\ waitPc' = "waiting"
    /\ attempt' = 1
    /\ running' = IF Subprocess(site) THEN {1} ELSE {}
    /\ UNCHANGED waitOutcome
    /\ UNCHANGED <<parseVars, curateVars, assembleVars, frameVars, callVars, docVars>>

\* what follows an attempt that did not give the result: extractFrame goes
\* on to its next strategy or ladder, every other operation is over
afterFailure(outcome, stillRunning) ==
    IF attempt < attempts(waitSite)
    THEN /\ attempt' = attempt + 1
         /\ running' = stillRunning \cup {attempt + 1}
         /\ UNCHANGED <<waitPc, waitOutcome>>
    ELSE /\ waitPc' = "done"
         /\ waitOutcome' = outcome
         /\ running' = stillRunning
         /\ UNCHANGED attempt

\* the collaborator answers: the request settles, or the subprocess exits
\* with 'end' (ok) or 'error'
Responds(ok) ==
    /\ waitPc = "waiting"
    /\ IF ok
       THEN /\ waitPc' = "done"
            /\ waitOutcome' = "ok"
            /\ running' = running \ {attempt}
            /\ UNCHANGED attempt
       ELSE afterFailure("error", running \ {attempt})
    /\ UNCHANGED waitSite
    /\ UNCHANGED <<parseVars, curateVars, assembleVars, frameVars, callVars, docVars>>

\* the timer fires before the collaborator has answered
TimeoutFires ==
    /\ waitPc = "waiting"
    /\ timeoutMs(waitSite) # <<>>
    /\ afterFailure("timeout",
                    IF killsOnTimeout(waitSite) THEN running \ {attempt}
                    ELSE running)
    /\ UNCHANGED waitSite
    /\ UNCHANGED <<parseVars, curateVars, assembleVars, frameVars, callVars, docVars>>

\* a subprocess nobody waits for any more exits on its own
AbandonedExits(k) ==
    /\ k \in running
    /\ waitPc = "done" \/ k # attempt
    /\ running' = running \ {k}
    /\ UNCHANGED <<waitSite, waitPc, attempt, waitOutcome>>
    /\ UNCHANGED <<parseVars, curateVars, assembleVars, frameVars, callVars, docVars>>

InitWait ==
    /\ ParseIdle /\ CurateIdle /\ AssembleIdle /\ FrameIdle /\ CallIdle
    /\ DocIdle /\ WaitInit

NextWait ==
    \/ \E site \in Sites : StartWait(site)
    \/ \E ok \in BOOLEAN : Responds(ok)
    \/ TimeoutFires
    \/ \E k \in 1..(3 * (maxRetries + 1)) : AbandonedExits(k)

SpecWait == InitWait /\ [][NextWait]_vars

\* timers fire; a collaborator is free never to answer
SpecWaitTimed == SpecWait /\ WF_vars(TimeoutFires)

----------------------------------------------------------------------------
(* One window and a judgment whose members may be missing or of the wrong   *)
(* type.  A member is Missing, a number Num(n) or a non-numeric string.     *)

Missing == [kind |-> "missing", n |-> 0, s |-> <<>>]

NotANumber == Str(<<"x">>)

\* optimal_start_offset || 0 and optimal_end_offset || 0
offsetOrZero(member) == IF member.kind = "num" THEN member.n ELSE 0

\* enhanceClipWithLLM after callClaudeViaAWS on such a judgment, by the
\* coercions of JavaScript: a missing include_clip is falsy; a missing or
\* non-numeric relevance_score compares false with the threshold; a
\* non-numeric offset turns Math.max, Math.min and the sums into NaN, the
\* test optimizedEnd <= optimizedStart is then false and the clip object is
\* returned with NaN for a time ("NaN").  "null": no clip.
judgeRawWindow(segment, videoFile, raw) ==
    IF \/ raw.include_clip # "true"
       \/ raw.relevance_score.kind # "num"
       \/ raw.relevance_score.n < MIN_LLM_SCORE
    THEN [kind |-> "null", clip |-> <<>>]
    ELSE IF \/ raw.optimal_start_offset.kind = "str"
            \/ raw.optimal_end_offset.kind = "str"
    THEN [kind |-> "NaN", clip |-> <<>>]
    ELSE [kind |-> "clip",
          clip |-> judgeWindow(segment, videoFile,
                       Analysis(TRUE, raw.relevance_score.n,
                                offsetOrZero(raw.optimal_start_offset),
                                offsetOrZero(raw.optimal_end_offset), <<>>))]

RawJudgments ==
    [include_clip : {"missing", "true", "false"},
     relevance_score : {Missing, NotANumber, Num(MIN_LLM_SCORE), Num(100)},
     optimal_start_offset : {Missing, NotANumber, Num(2)},
     optimal_end_offset : {Missing, NotANumber, Num(2)}]

RawJudgeArgs == [segment : JudgedWindows, raw : RawJudgments]

InitRawJudge == ComponentsIdle /\ Called(RawJudgeArgs)

EnhanceClipRaw == Returns(judgeRawWindow(fnArgs.segment, "a.mp4", fnArgs.raw))

NextRawJudge == EnhanceClipRaw

SpecRawJudge == InitRawJudge /\ [][NextRawJudge]_vars

----------------------------------------------------------------------------
(* Sliding windows over one parsed transcript                               *)

\* the parsed entries and one whose end is not after its start
SlideEntries == ParsedEntries \cup {TranscriptEntry("a", 30, 30, 100)}

SlideArgs == [timestamps : SeqsUpTo(SlideEntries, MaxEntries)]

InitSlide == ComponentsIdle /\ Called(SlideArgs)

CreateSlidingWindows == Returns(createSlidingWindows(fnArgs.timestamps, 45))

NextSlide == CreateSlidingWindows

SpecSlide == InitSlide /\ [][NextSlide]_vars

----------------------------------------------------------------------------
(* Structured extraction over one parsed JSON value.  A value is an array   *)
(* of values or an object with the members text, start, end (each possibly  *)
(* missing) and further members holding nested values.                      *)

JsonObject(text, start, end, members) ==
    [kind |-> "obj", text |-> text, start |-> start, end |-> end,
     items |-> members]

JsonArray(items) ==
    [kind |-> "arr", text |-> "", start |-> Missing, end |-> Missing,
     items |-> items]

RECURSIVE extractTimestampsFromValue(_)
\* extractTimestampsFromObject with its recursion: an array is walked item
\* by item, an object with truthy text, start and end is validated and not
\* walked further, any other object is walked through Object.values
extractTimestampsFromValue(obj) ==
    IF obj.kind = "obj" /\ HasAllFields(obj)
    THEN extractTimestampsFromObject(obj)
    ELSE FlatSeq([i \in 1..Len(obj.items) |->
                     extractTimestampsFromValue(obj.items[i])])

MaxNested == 2

ExtractTimes == {Missing, Num(0), Num(7), Str(<<"0">>), Str(<<"5">>)}

FlatObjects ==
    {JsonObject(text, start, end, <<>>) :
        text \in {"", " ", "a"}, start \in ExtractTimes, end \in ExtractTimes}

\* objects that hold other objects: the transcript wrappers
Wrappers ==
    {JsonObject(o.text, o.start, o.end, <<inner>>) :
        o \in {JsonObject("", Missing, Missing, <<>>),
               JsonObject("a", Num(0), Num(7), <<>>),
               JsonObject("a", Num(7), Str(<<"5">>), <<>>)},
        inner \in FlatObjects}

ExtractArgs ==
    [obj : FlatObjects \cup Wrappers
           \cup {JsonArray(items) : items \in SeqsUpTo(FlatObjects, MaxNested)}]

InitExtract == ComponentsIdle /\ Called(ExtractArgs)

ExtractTimestamps == Returns(extractTimestampsFromValue(fnArgs.obj))

NextExtract == ExtractTimestamps

SpecExtract == InitExtract /\ [][NextExtract]_vars

----------------------------------------------------------------------------
(* Frame selection and PDF export of one cached document.  The structure    *)
(* is a sequence of sections, each the sequence of its steps' needsVisual   *)
(* flags; JavaScript indices start at 0.                                    *)

MaxSections == 2

MaxSteps == 3

MaxDocSteps == 5

\* validateDocumentStructure: "Must have exactly 4 visual steps"
RequiredVisualSteps == 4

DigitChars == <<"0", "1", "2", "3", "4", "5", "6", "7", "8", "9">>

\* String(n) of a one-digit integer
NumberToString(n) ==
    IF n < 0 THEN <<"-", DigitChars[1 - n]>> ELSE <<DigitChars[n + 1]>>

\* `${sectionIndex}-${stepIndex}`
frameKey(sectionIndex, stepIndex) ==
    NumberToString(sectionIndex) \o <<"-">> \o NumberToString(stepIndex)

RECURSIVE SplitDash(_)
\* String.prototype.split('-')
SplitDash(s) ==
    IF \A i \in 1..Len(s) : s[i] # "-" THEN <<s>>
    ELSE LET k == CHOOSE i \in 1..Len(s) :
                      s[i] = "-" /\ \A j \in 1..(i - 1) : s[j] # "-"
         IN  <<SubSeq(s, 1, k - 1)>> \o SplitDash(SubSeq(s, k + 1, Len(s)))

\* Number(part) of a run of digits; Number('') is 0
ToNumber(part) == DigitsValue(part)

\* const [frameSection, frameStep] = key.split('-').map(Number)
keyIndices(key) ==
    LET parts == SplitDash(key)
    IN  <<ToNumber(parts[1]), ToNumber(parts[2])>>

\* the first pass: the steps with needsVisual === true
totalSteps(sections) ==
    Cardinality({p \in (1..Len(sections)) \X (1..MaxSteps) :
                    p[2] <= Len(sections[p[1]]) /\ sections[p[1]][p[2]]})

\* the second pass: the stored keys whose frame has success and whose
\* indices name a step with needsVisual === true
selectedSteps(sections, frames) ==
    Cardinality({key \in DOMAIN frames :
        /\ frames[key]
        /\ LET frameSection == keyIndices(key)[1]
               frameStep    == keyIndices(key)[2]
           IN  /\ frameSection < Len(sections)
               /\ frameStep < Len(sections[frameSection + 1])
               /\ sections[frameSection + 1][frameStep + 1]})

\* the steps of all sections
stepCount(sections) ==
    Cardinality({p \in (1..Len(sections)) \X (1..MaxSteps) :
                    p[2] <= Len(sections[p[1]])})

\* validateDocumentStructure: exactly 4 visual steps
DocStructures ==
    {sections \in SeqsUpTo(SeqsUpTo(BOOLEAN, MaxSteps) \ {<<>>}, MaxSections) :
        /\ totalSteps(sections) = RequiredVisualSteps
        /\ stepCount(sections) <= MaxDocSteps}

DocInit ==
    /\ docStructure \in DocStructures
    /\ selectedFrames = <<>>
    /\ isReadyForPDF = FALSE
    /\ exportResponse = "none"

\* POST /api/update-selected-frame
UpdateSelectedFrame(sectionIndex, stepIndex, success) ==
    /\ exportResponse # "off"
    /\ IF sectionIndex >= Len(docStructure)
       THEN /\ exportResponse' = "update 400"
            /\ UNCHANGED <<selectedFrames, isReadyForPDF>>
       ELSE IF sectionIndex < 0
       THEN \* sections[-1] is undefined: section.steps throws
            /\ exportResponse' = "update 500"
            /\ UNCHANGED <<selectedFrames, isReadyForPDF>>
       ELSE IF stepIndex >= Len(docStructure[sectionIndex + 1])
       THEN /\ exportResponse' = "update 400"
            /\ UNCHANGED <<selectedFrames, isReadyForPDF>>
       ELSE LET key == frameKey(sectionIndex, stepIndex)
                frames == [k \in DOMAIN selectedFrames \cup {key} |->
                              IF k = key THEN success ELSE selectedFrames[k]]
            IN  /\ selectedFrames' = frames
                /\ isReadyForPDF' =
                       (/\ totalSteps(docStructure) > 0
                        /\ selectedSteps(docStructure, frames)
                               >= totalSteps(docStructure))
                /\ exportResponse' = "update 200"
    /\ UNCHANGED docStructure
    /\ UNCHANGED <<parseVars, curateVars, assembleVars, frameVars, callVars,
                   waitVars>>

\* GET /api/export-pdf: the readiness gate, then the rendering
ExportPdf(rendered) ==
    /\ exportResponse # "off"
    /\ exportResponse' = IF ~isReadyForPDF THEN "export 400"
                         ELSE IF rendered THEN "export pdf"
                         ELSE "export 500"
    /\ UNCHANGED <<docStructure, selectedFrames, isReadyForPDF>>
    /\ UNCHANGED <<parseVars, curateVars, assembleVars, frameVars, callVars,
                   waitVars>>

InitDocument ==
    /\ ParseIdle /\ CurateIdle /\ AssembleIdle /\ FrameIdle /\ CallIdle
    /\ WaitIdle /\ DocInit

NextDocument ==
    \/ \E sectionIndex \in -1..MaxSections, stepIndex \in -1..MaxSteps,
          success \in BOOLEAN :
            UpdateSelectedFrame(sectionIndex, stepIndex, success)
    \/ \E rendered \in BOOLEAN : ExportPdf(rendered)

SpecDocument == InitDocument /\ [][NextDocument]_vars

----------------------------------------------------------------------------
(* Claims                                                                   *)

\* C1: with zero retrieved references and at least one video file,
\* extractRelevantClips returns a non-empty list in which every clip has
\* isFallback = true.
C1_ZeroReferencesGiveFallbacks ==
    (cPc = "done" /\ references = <<>> /\ videoFiles # <<>>)
        => /\ cClips # <<>>
           /\ \A i \in 1..Len(cClips) : cClips[i].isFallback

\* extractRelevantClips has returned two fallback clips for a request without
\* references over two video files
C1_Witness ==
    /\ cPc = "done" /\ references = <<>> /\ Len(videoFiles) = 2
    /\ Len(cClips) = 2 /\ cClips[1].isFallback /\ cClips[2].isFallback

\* C2: when every LLM call fails, for any references parsed by any strategy,
\* with or without a model client, and at least one video file,
\* extractRelevantClips returns a non-empty list in which no clip has
\* endTime <= startTime.
C2_FailingLLMClipsAreOrdered ==
    (cPc = "done" /\ llmMode = "fail" /\ embedMode = "fail" /\ videoFiles # <<>>)
        => /\ cClips # <<>>
           /\ \A i \in 1..Len(cClips) : cClips[i].endTime > cClips[i].startTime

\* C3: extractRelevantClips never returns more than MAX_CLIPS clips, with or
\* without a model client.
C3_AtMostMaxClips == cPc = "done" => Len(cClips) <= MAX_CLIPS

\* C4: every clip extractRelevantClips returns has startTime >= 0 and a
\* duration endTime - startTime of at least 5 and at most 90 seconds.
C4_ClipDurationBounds ==
    cPc = "done" =>
        \A i \in 1..Len(cClips) :
            /\ cClips[i].startTime >= 0
            /\ cClips[i].endTime - cClips[i].startTime >= MIN_DURATION
            /\ cClips[i].endTime - cClips[i].startTime <= MAX_DURATION

\* C5: every TranscriptEntry parseTimestampsRobustly returns has
\* end > start >= 0, whichever of its three strategies produced it.
C5_ParsedEntriesAreOrdered ==
    pPc = "parsed" =>
        \A i \in 1..Len(pResult) :
            pResult[i].start >= 0 /\ pResult[i].end > pResult[i].start

\* C6: when two content segments given to generateVideo have the same
\* (videoPath, rounded start, rounded end) key, exactly one of them is
\* extracted, captioned and placed: never both.
C6_CollidingSegmentsPlacedOnce ==
    \A i \in 1..Len(gSegments), j \in 1..Len(gSegments) :
        (/\ i < j
         /\ gSegments[i].type = "content" /\ gSegments[i].videoPath # ""
         /\ gSegments[j].type = "content"
         /\ getSegmentKey(gSegments[i]) = getSegmentKey(gSegments[j]))
            => ~(i \in Range(gPlaced) /\ j \in Range(gPlaced))

\* C7: the failure of one content segment's extraction is confined to that
\* segment: the loop still goes through the segments after it, so
\* generateVideo never ends with a failed extraction and segments unvisited.
C7_ExtractionFailureIsConfined ==
    (gPc = "done" /\ gFailed # {}) => gI > Len(gSegments)

\* C8: once generateVideo has finished, by returning or by throwing, no
\* intermediate file (captioned segment, normalized part, title card, concat
\* file list) is left: only the final output and the cached extracted
\* segments and transitions.
C8_NoIntermediateFileLeft ==
    gPc = "done" =>
        \A f \in disk : f.kind \in {"final", "segment", "transition"}

\* C9: among concurrent extractFrame calls for one cache key, at most one
\* run of the strategy ladder is in progress at any time.
C9_OneLadderPerKey ==
    Cardinality({p \in Callers : promises[p].state = "running"}) <= 1

\* C10: every extractFrame call returns a path or none and never raises,
\* a call that joined an extraction already in flight included.
C10_ExtractFrameNeverRaises == \A c \in Callers : callers[c].pc # "raised"

\* C11: once the strategy ladder has been exhausted on the first attempt and
\* on each of the 3 retries, the error marker is cached and every extractFrame
\* call for the key that begins afterwards returns none without invoking the
\* transcoder (it neither returns a path nor gets past the cache check), also
\* after the cache sweep has run.
C11_MarkerSilencesLaterCalls ==
    \A c \in Callers :
        sinceMarker[c] => callers[c].pc \in {"idle", "returnedNone"}

\* C12: for a probed duration above 0 and a requested timestamp at or past
\* it, every timestamp extractFrame hands to the transcoder, in each of the
\* three strategies, is above 0 and below the probed duration.
C12_SeeksInsideVideo ==
    (fnPc = "returned" /\ fnArgs.timestamp >= fnArgs.duration) =>
        \A k \in 1..3 :
            fnResult[k] # <<>> =>
                fnResult[k][1] > 0 /\ fnResult[k][1] < fnArgs.duration

\* C13: when the LLM returns a judgment for a window, enhanceClipWithLLM
\* yields a clip if and only if the judgment has include_clip = true and
\* relevance_score >= MIN_LLM_SCORE; otherwise the window yields no clip.
C13_ClipOnlyWhenIncludedAndRelevant ==
    fnPc = "returned" =>
        (fnResult # <<>> <=>
            /\ fnArgs.analysis.include_clip
            /\ fnArgs.analysis.relevance_score >= MIN_LLM_SCORE)

\* a judgment exactly at the threshold gave a clip
C13_Witness ==
    /\ fnPc = "returned"
    /\ fnArgs.analysis.include_clip
    /\ fnArgs.analysis.relevance_score = MIN_LLM_SCORE
    /\ Len(fnResult) = 1
    /\ fnResult[1].aiGenerated

\* C14: for every accepted window and every pair of trim offsets the LLM
\* proposes, the offsets applied are each within [0, max(0, duration - 5)];
\* whenever applying them would give end <= start the clip is built from the
\* original window bounds plus the context buffer; and the resulting clip
\* lasts at least 5 seconds.
C14_AppliedOffsetsKeepFiveSeconds ==
    (fnPc = "returned" /\ fnResult # <<>>) =>
        LET segment     == fnArgs.segment
            duration    == segment.endTime - segment.startTime
            startOffset == appliedOffset(fnArgs.analysis.optimal_start_offset,
                                         duration)
            endOffset   == appliedOffset(fnArgs.analysis.optimal_end_offset,
                                         duration)
            clip        == fnResult[1]
        IN  /\ startOffset \in 0..Max(0, duration - 5)
            /\ endOffset \in 0..Max(0, duration - 5)
            /\ segment.endTime - endOffset <= segment.startTime + startOffset
                  => /\ clip.startTime
                          = Max(0, segment.startTime - CONTEXT_BUFFER)
                     /\ clip.endTime = segment.endTime + CONTEXT_BUFFER
            /\ clip.endTime - clip.startTime >= 5

\* C15: in cross-video ranking, whenever the LLM call fails or its selection
\* is unusable (missing, empty, or made only of indices outside the candidate
\* range), the result is the candidates sorted by descending relevanceScore
\* and cut to MAX_CLIPS, hence non-empty whenever there are candidates.
C15_UnusableSelectionFallsBackToSort ==
    (/\ fnPc = "returned"
     /\ \/ fnArgs.mode = "fail"
        \/ fnArgs.selection = <<>>
        \/ \A i \in 1..Len(fnArgs.selection[1]) :
              fnArgs.selection[1][i] \notin 0..(Len(fnArgs.clips) - 1))
    => /\ fnResult = Slice(SortByRelevance(fnArgs.clips), MAX_CLIPS)
       /\ fnArgs.clips # <<>> => fnResult # <<>>

\* C16: no window with fewer than 2 transcript entries is passed to
\* enhanceClipWithLLM, in semantic mode and in fallback mode alike.
C16_ScoredWindowsHaveTwoEntries ==
    fnPc = "returned" =>
        \A i \in 1..Len(fnResult) : Len(fnResult[i].timestamps) >= 2

\* C17: findVideoFile returns an available file whose basename, with the
\* suffixes _sentences/_transcript/_timestamped and the extension stripped
\* and letter case ignored, contains or is contained in the equally stripped
\* basename of the storage URI; it returns none exactly when no available
\* file matches in that way.
C17_ResolvesByStrippedName ==
    fnPc = "returned" =>
        LET folded(stem) ==
                [i \in 1..Len(stem) |-> IF stem[i] = "M" THEN "m" ELSE stem[i]]
            contains(a, b) ==
                \E i \in 0..(Len(a) - Len(b)) : SubSeq(a, i + 1, i + Len(b)) = b
            matching ==
                {i \in 1..Len(fnArgs.files) :
                    \/ contains(folded(fnArgs.files[i].stem),
                                folded(fnArgs.s3Uri.stem))
                    \/ contains(folded(fnArgs.s3Uri.stem),
                                folded(fnArgs.files[i].stem))}
        IN  IF matching = {} THEN fnResult = <<>>
            ELSE /\ fnResult # <<>>
                 /\ \E i \in matching : fnResult[1] = fnArgs.files[i]

\* C18: cosineSimilarity returns exactly 0 whenever either vector is null or
\* empty or the lengths differ, and it never divides by a zero denominator,
\* two empty vectors and all-zero vectors included.
C18_CosineNeverDividesByZero ==
    fnPc = "returned" =>
        /\ (\/ fnArgs.a.null \/ fnArgs.b.null
            \/ fnArgs.a.v = <<>> \/ fnArgs.b.v = <<>>
            \/ Len(fnArgs.a.v) # Len(fnArgs.b.v)) => fnResult = Fin(0)
        /\ ~fnResult.nan

\* C19: timeToSeconds returns minutes*60+seconds for every valid MM:SS
\* string, hours*3600+minutes*60+seconds for every valid HH:MM:SS string,
\* and 0 for every malformed string: a group that is not a number or has
\* trailing garbage, a negative value, or more than three groups.
C19_TimeStringsParseOrGiveZero ==
    fnPc = "returned" =>
        LET groups == SplitColon(fnArgs.timeStr.s)
            numeric(g) == g # <<>> /\ \A i \in 1..Len(g) : g[i] \in Digits
            valid == \A k \in 1..Len(groups) : numeric(groups[k])
            malformed ==
                \/ Len(groups) > 3
                \/ \E k \in 1..Len(groups) :
                      \E i \in 1..Len(groups[k]) : groups[k][i] \in {"x", "-"}
        IN  /\ (valid /\ Len(groups) = 2) =>
                  fnResult = 60 * DigitsValue(groups[1]) + DigitsValue(groups[2])
            /\ (valid /\ Len(groups) = 3) =>
                  fnResult = 3600 * DigitsValue(groups[1])
                             + 60 * DigitsValue(groups[2])
                             + DigitsValue(groups[3])
            /\ malformed => fnResult = 0

\* C20: every segment extraction generateVideo issues uses a window with
\* 0 <= start < end and, the duration having been probed, end at least 2
\* seconds before the end of the video, whatever startTime and endTime the
\* content segment carries.
C20_ExtractionWindowInsideVideo ==
    fnPc = "returned" =>
        /\ 0 <= fnResult.start
        /\ fnResult.start < fnResult.end
        /\ fnResult.end <= VideoDuration(fnArgs.segment.videoPath) - 20

\* C21: every wait on an external collaborator (LLM call, embedding call,
\* each transcoder subprocess) is bounded by a timeout: if the collaborator
\* never responds, the operation that called it still completes.
C21_EveryWaitIsBounded == (waitPc = "waiting") ~> (waitPc = "done")

\* C22: whenever a transcoder subprocess reaches its timeout it is killed,
\* so no earlier subprocess of the operation is still running on the output
\* path when the next strategy, retry or step starts on it.
C22_TimedOutSubprocessIsKilled == \A k \in running : k = attempt

\* C23: in generateVideo, when the parts to concatenate are exactly the
\* processed content segments (no transition or title card among them), the
\* final file is produced by the fast path without normalizing any part;
\* otherwise every part is normalized before the concatenation.
C23_FastPathForContentOnly ==
    gConcat # "none" =>
        (gConcat = "fast" <=>
            /\ Len(buildParts(processedSegments, transitionPath))
                   = Len(processedSegments)
            /\ \A i \in 1..Len(processedSegments) :
                   processedSegments[i].type = "content")

\* C24: a failure of the caption (drawtext) filter never fails a content
\* segment: when the plain re-encode succeeds, or when it fails too and
\* generateVideo copies the extracted segment, the segment is in the list
\* of processed segments that goes to the concatenation.
C24_CaptionFailureKeepsSegment ==
    \A k \in 1..Len(gCaptions) :
        (~gCaptions[k].drawtext /\ (gCaptions[k].transcode \/ gCaptions[k].copy))
            => \E j \in 1..Len(gPlaced) :
                   /\ gPlaced[j] = gCaptions[k].segment
                   /\ processedSegments[j].type = "content"

\* drawtext and the re-encode both failed for a segment, it was copied, and
\* generateVideo returned the final file
C24_Witness ==
    /\ gOutcome = "returned"
    /\ \E k \in 1..Len(gCaptions) :
           /\ ~gCaptions[k].drawtext /\ ~gCaptions[k].transcode
           /\ gCaptions[k].copy
           /\ \E j \in 1..Len(gPlaced) : gPlaced[j] = gCaptions[k].segment

\* C25: for a judgment with a missing or wrong-typed member (no
\* include_clip, no or a non-numeric relevance_score, a non-numeric offset)
\* enhanceClipWithLLM yields the fallback clip derived from the window
\* bounds, never no clip and never a clip whose startTime or endTime is not
\* a number.
C25_MalformedJudgmentGivesFallbackClip ==
    (/\ fnPc = "returned"
     /\ \/ fnArgs.raw.include_clip = "missing"
        \/ fnArgs.raw.relevance_score.kind # "num"
        \/ fnArgs.raw.optimal_start_offset.kind = "str"
        \/ fnArgs.raw.optimal_end_offset.kind = "str")
    => /\ fnResult.kind = "clip"
       /\ Len(fnResult.clip) = 1
       /\ \E buffer \in {2, CONTEXT_BUFFER} :
             /\ fnResult.clip[1].startTime
                    = Max(0, fnArgs.segment.startTime - buffer)
             /\ fnResult.clip[1].endTime = fnArgs.segment.endTime + buffer

\* C26: whenever the embedding collaborator is absent or an embedding call
\* of createSemanticSegments fails, for the query or for a window, the
\* result is the fallback grouping: the input entries in their order, cut
\* into consecutive groups of at most 8, each with similarity 0.5.
C26_EmbeddingFailureGivesFallbackGrouping ==
    (/\ fnPc = "returned"
     /\ ~fnArgs.client \/ fnArgs.embedMode \in {"fail", "failWindows"})
    => /\ FlatSeq([i \in 1..Len(fnResult) |-> fnResult[i].timestamps])
              = fnArgs.timestamps
       /\ \A i \in 1..Len(fnResult) :
              /\ Len(fnResult[i].timestamps) \in 1..8
              /\ fnResult[i].similarity = 50

\* C27: createSlidingWindows splits the valid entries, in ascending start
\* order, into maximal runs of consecutive entries whose start is within
\* 45 s of the start of the run's first entry, and emits exactly the runs of
\* at least 2 entries, for any start times >= 0.
C27_WindowsAreTheMaximalRuns ==
    fnPc = "returned" =>
        LET sorted == SortByStart(fnArgs.timestamps)
            valid == SelectSeq(sorted, LAMBDA t : t.end > t.start)
            RECURSIVE runs(_)
            runs(es) ==
                IF es = <<>> THEN <<>>
                ELSE LET k == Cardinality({i \in 1..Len(es) :
                                  es[i].start - es[1].start <= 45})
                     IN  <<SubSeq(es, 1, k)>>
                         \o runs(SubSeq(es, k + 1, Len(es)))
        IN  fnResult = SelectSeq(runs(valid), LAMBDA run : Len(run) >= 2)

\* C28: every window the segmenter returns, scored or fallback, has
\* startTime equal to the least start and endTime equal to the greatest end
\* of its entries.
C28_WindowSpansItsEntries ==
    fnPc = "returned" =>
        \A i \in 1..Len(fnResult) :
            /\ fnResult[i].startTime = MinStart(fnResult[i].timestamps)
            /\ fnResult[i].endTime = MaxEnd(fnResult[i].timestamps)

\* C29: structured extraction emits one entry for exactly the objects
\* reached by the walk that hold text, start and end with non-empty text and
\* 0 <= start < end, the times being numbers or strings; every other object
\* gives no entry.  The walk does not descend into an object whose three
\* members are all truthy.
C29_EntryForEveryWellFormedObject ==
    fnPc = "returned" =>
        LET seconds(t) == timeToSeconds(t)
            wellFormed(o) ==
                /\ o.kind = "obj"
                /\ Trim(o.text) # ""
                /\ o.start # Missing /\ o.end # Missing
                /\ 0 <= seconds(o.start) /\ seconds(o.start) < seconds(o.end)
            RECURSIVE expected(_)
            expected(o) ==
                IF wellFormed(o)
                THEN <<TranscriptEntry(Trim(o.text), seconds(o.start),
                                       seconds(o.end), 100)>>
                ELSE IF o.kind = "obj" /\ HasAllFields(o) THEN <<>>
                ELSE FlatSeq([i \in 1..Len(o.items) |-> expected(o.items[i])])
        IN  fnResult = expected(fnArgs.obj)

\* C30: after any sequence of update-selected-frame requests, export-pdf
\* passes its gate only if every step marked needsVisual has, under its own
\* key, a selected frame with success = true; otherwise it answers 400.
C30_ExportOnlyWithEveryRequiredFrame ==
    exportResponse \in {"export pdf", "export 500"} =>
        \A s \in 1..Len(docStructure) :
            \A t \in 1..Len(docStructure[s]) :
                docStructure[s][t] =>
                    /\ frameKey(s - 1, t - 1) \in DOMAIN selectedFrames
                    /\ selectedFrames[frameKey(s - 1, t - 1)]

=============================================================================
